---- MODULE Spec2Model ----
(***************************************************************************)
(* Photo Studio backend: the upload, AI-generation, read and delete flows  *)
(* of the photo API over the relational store (photos table), the object   *)
(* store (GCS bucket) and the document store (Firestore collection), and   *)
(* the album association (albums and album_photos tables).                 *)
(*                                                                         *)
(* Every request runs as its own task; a task gives up control at every    *)
(* store call, so the steps of concurrent requests interleave at the       *)
(* granularity of one store call.  A store call either succeeds or raises: *)
(*   - a GCS / Firestore call raises the client library's error class,     *)
(*     GoogleCloudError, which is the class the services catch;            *)
(*   - a database call raises an SQLAlchemy error, which no layer catches  *)
(*     below the router;                                                   *)
(*   - the AI adapter raises Exception.                                    *)
(***************************************************************************)
EXTENDS Integers, Sequences, FiniteSets, TLC

----------------------------------------------------------------------------
(* Bounds of the model *)

\* number of requests (concurrent or sequential) in one behaviour
NumReqs == 2
\* number of user accounts issuing requests
NumUsers == 2

Slots == 1..NumReqs
Users == 1..NumUsers
\* every upload / generation draws at most two uuid4 values (blob name, row id)
Uuids == 1..(2 * NumReqs)

----------------------------------------------------------------------------
(* Program constants *)

\* settings.MAX_UPLOAD_SIZE = 10 * 1024 * 1024
MAX_UPLOAD_SIZE == 10485760

ALLOWED_IMAGE_TYPES == {"image/jpeg", "image/png", "image/gif", "image/webp"}

GEMINI_IMAGE_MODEL == "gemini-2.5-flash-image"

\* AIImageGeneratorService.get_supported_aspect_ratios
get_supported_aspect_ratios ==
    << "1:1", "2:3", "3:2", "3:4", "4:3", "4:5", "5:4", "9:16", "16:9", "21:9" >>

\* PhotoStatus
UPLOADING == "uploading"
PROCESSED == "processed"
FAILED == "failed"
PhotoStatus == {UPLOADING, PROCESSED, FAILED}

HTTP_200_OK == 200
HTTP_201_CREATED == 201
HTTP_204_NO_CONTENT == 204
HTTP_400_BAD_REQUEST == 400
HTTP_403_FORBIDDEN == 403
HTTP_404_NOT_FOUND == 404
HTTP_500_INTERNAL_SERVER_ERROR == 500

----------------------------------------------------------------------------
(* Inputs the requests are drawn from *)

ContentTypes == {"image/jpeg", "image/bmp"}
FileSizes == {MAX_UPLOAD_SIZE, MAX_UPLOAD_SIZE + 1}
AspectRatios == {"16:9", "2:1"}
Prompts == {"a red fox"}
\* a file name as (stem, extension), the stem as a sequence of its pieces;
\* NoFilename is a missing name
NoFilename == << >>
Filenames == {NoFilename}
\* len(image_bytes) of a generated image
ImageSizes == {2048}
\* mime type of a generated image (part.inline_data.mime_type or "image/png")
ImageTypes == {"image/png"}

----------------------------------------------------------------------------
VARIABLES
    photos,     \* relational store: photos table, row id -> row
    blobs,      \* object store: the set of blob names that hold bytes
    docs,       \* document store: photo_metadata collection, key -> document
    uuidCtr,    \* number of uuid4 values drawn so far
    req,        \* the requests: position, arguments, locals and response
    albums,     \* relational store: albums table, row id -> row
    album_photos, \* relational store: album_photos table, row id -> row
    users,      \* relational store: users table, row id -> row
    events,     \* finalize notifications of the bucket not yet delivered
    wk          \* the thumbnail worker: its invocation in progress, or its last

vars == << photos, blobs, docs, uuidCtr, req, albums, album_photos,
           users, events, wk >>
stores == << photos, blobs, docs >>
albumStores == << albums, album_photos >>
sideVars == << users, events, wk >>

----------------------------------------------------------------------------
(* Pure helpers *)

Range(s) == {s[i] : i \in DOMAIN s}

\* uuid4(): a value no earlier call returned
uuid4 == uuidCtr + 1

\* A string that is taken apart somewhere (an object name, a document key) is
\* a sequence of pieces: the separators "/" and "." are pieces of their own,
\* and no other piece holds a separator.

\* str(photo_id): the document key of a uuid
UuidStr(u) == << ToString(u) >>

\* os.path.splitext(filename)[1]
Splitext(filename) == filename[2]

\* file.filename or "photo.jpg"
FilenameOrDefault(filename) ==
    IF filename = NoFilename THEN << <<"photo">>, ".jpg" >> ELSE filename

\* aspect_ratio.replace(':', 'x')
ReplaceColon(ratio) ==
    CASE ratio = "1:1" -> "1x1"   [] ratio = "2:3" -> "2x3"
      [] ratio = "3:2" -> "3x2"   [] ratio = "3:4" -> "3x4"
      [] ratio = "4:3" -> "4x3"   [] ratio = "4:5" -> "4x5"
      [] ratio = "5:4" -> "5x4"   [] ratio = "9:16" -> "9x16"
      [] ratio = "16:9" -> "16x9" [] ratio = "21:9" -> "21x9"
      [] ratio = "2:1" -> "2x1"   [] OTHER -> ratio

\* f"ai_generated_{ratio}.png" / f"ai_modified_{ratio}.png"
AiFilename(prefix, ratio) == << << prefix, ReplaceColon(ratio) >>, ".png" >>

\* the pieces of a file extension as splitext returns it
ExtPieces(ext) ==
    CASE ext = ".jpg" -> << ".", "jpg" >>
      [] ext = ".png" -> << ".", "png" >>
      [] OTHER -> << >>

\* StorageService._generate_unique_filename: users/{user_id}/photos/{uuid}{ext}
GenerateUniqueFilename(filename, user_id, unique_id) ==
    << "users", "/", ToString(user_id), "/", "photos", "/", ToString(unique_id) >>
        \o ExtPieces(Splitext(filename))

NoPath == << >>

\* the request record before the request arrives
\* the username and the email of the n-th account
UsernameOf(n) == "user" \o ToString(n)
EmailOf(n) == UsernameOf(n) \o "@example.com"

\* the users table once every user of the model has registered
RegisteredUsers ==
    [id \in Users |-> [username |-> UsernameOf(id), email |-> EmailOf(id)]]

IdleReq ==
    [ kind |-> "none", pc |-> "idle", user |-> 0,
      content_type |-> "", file_size |-> 0, filename |-> NoFilename,
      aspect_ratio |-> "", prompt |-> "", reference |-> NoFilename,
      target |-> 0,            \* photo id in the URL of a get / delete / add
      album |-> 0,             \* album id in the URL of an add
      chk |-> "none",          \* the check add_photo_to_album stopped at
      apid |-> 0,              \* id of the AlbumPhoto the request inserted
      storage_path |-> NoPath, \* local storage_path
      pid |-> 0,               \* id of the Photo the request inserted
      photo |-> "",            \* status field of the local PhotoResponse
      put |-> "none", ins |-> "none", meta |-> "none", sel |-> "none",
      upd |-> "none", ai |-> "none", del |-> "none",
      status |-> "",           \* status in the body of a create or a patch
      username |-> "",         \* username in the body of a register / update
      email |-> "",            \* email in the body of a register / update
      existing |-> << >>,      \* existing_user of update_user
      rows |-> {},             \* ids of the rows of a returned list
      urls |-> << >>,          \* blob names of the signed URLs returned
      tx |-> FALSE,            \* the session of the request has begun a
                               \* transaction on a pooled connection (at its
                               \* last statement) and not ended it
      code |-> 0,              \* HTTP status of the response, 0 while running
      resp |-> "" ]            \* status field of the returned PhotoResponse

\* requests arrive in slot order
Arrives(r) ==
    /\ req[r].pc = "idle"
    /\ r > 1 => req[r - 1].pc # "idle"

\* the users a new request can come from: users are numbered in the order of
\* their first request
Callers ==
    LET seen == {req[q].user : q \in Slots} \ {0}
    IN  {u \in Users : u <= Cardinality(seen) + 1}

\* raise HTTPException(status_code=...) / an exception leaving the handler
\* get_db closes the session when the request ends
Respond(q, status_code) ==
    [q EXCEPT !.pc = "done", !.code = status_code, !.tx = FALSE]

\* mutant of UploadFlow: the row is inserted before the bytes are stored
UploadFlow_insert_first == << "insert", "put", "meta", "mark_sel", "meta_upd" >>

\* upload_photo: the order of the store calls inside the try block
UploadFlow == << "put", "insert", "meta", "mark_sel", "meta_upd" >>

\* generate_photo_from_text / generate_photo_from_reference: the same
GenerateFlow == << "ai", "put", "insert", "meta", "mark_sel" >>

Flow(kind) == IF kind = "upload" THEN UploadFlow ELSE GenerateFlow

\* the call that follows `step` in the handler, "return" after the last one
StepAfter(kind, step) ==
    LET f == Flow(kind)
        i == CHOOSE j \in DOMAIN f : f[j] = step
    IN  IF i = Len(f) THEN "return" ELSE f[i + 1]

\* the handler goes on after `step`: to the next call, or `return photo`
Continue(q, step) ==
    LET n == StepAfter(q.kind, step)
    IN  IF n = "return"
        THEN [Respond(q, HTTP_201_CREATED) EXCEPT !.resp = q.photo]
        ELSE [q EXCEPT !.pc = n]

\* except Exception as e: raise HTTPException(500)
Abort(q) == Respond(q, HTTP_500_INTERNAL_SERVER_ERROR)

----------------------------------------------------------------------------
(* POST /photos/upload *)

\* mutant of UploadValidation: a file of exactly the ceiling is refused
UploadValidation_ge(content_type, file_size) ==
    IF content_type \notin ALLOWED_IMAGE_TYPES THEN HTTP_400_BAD_REQUEST
    ELSE IF file_size >= MAX_UPLOAD_SIZE THEN HTTP_400_BAD_REQUEST
    ELSE 0

\* upload_photo: content-type and size validation; 0 when the file passes
UploadValidation(content_type, file_size) ==
    IF content_type \notin ALLOWED_IMAGE_TYPES THEN HTTP_400_BAD_REQUEST
    ELSE IF file_size > MAX_UPLOAD_SIZE THEN HTTP_400_BAD_REQUEST
    ELSE 0

\* upload_photo up to the try block
StartUpload(r) ==
    /\ Arrives(r)
    /\ \E u \in Callers, ct \in ContentTypes, sz \in FileSizes, fn \in Filenames :
         LET q == [IdleReq EXCEPT !.kind = "upload", !.user = u,
                                  !.content_type = ct, !.file_size = sz,
                                  !.filename = FilenameOrDefault(fn)]
             v == UploadValidation(ct, sz)
         IN  req' = [req EXCEPT ![r] =
                        IF v # 0 THEN Respond(q, v)
                        ELSE [q EXCEPT !.pc = UploadFlow[1]]]
    /\ UNCHANGED << stores, uuidCtr, albumStores, sideVars >>

----------------------------------------------------------------------------
(* The service calls shared by the upload and the generation flows *)

\* the finalize notification of an object written to the bucket; `by` tells
\* who wrote the object
Finalized(name, by) == [name |-> name, by |-> by]

\* the worker between invocations, before its first one
IdleWorker ==
    [ pc |-> "idle", file_path |-> NoPath, by |-> "",
      i |-> 0,                 \* sizes gone through in the loop
      thumbnail_urls |-> << >>, \* size name -> thumbnail URI
      photo_id |-> << >>,      \* the document key taken from the path
      read |-> "none", fail |-> "none", doc |-> "none",
      out |-> "none",          \* "skipped", "ok" or "raised"
      redelivered |-> 0,       \* deliveries of this event before this one
      prev_out |-> "none",     \* out, doc and thumbnail_urls of the
      prev_doc |-> "none",     \*   delivery before this one
      prev_urls |-> << >> ]

\* StorageService.upload_file
upload_file(r) ==
    /\ req[r].pc = "put"
    /\ LET q == req[r]
           blob_name == GenerateUniqueFilename(q.filename, q.user, uuid4)
       IN  \/ /\ blobs' = blobs \cup {blob_name}
              /\ events' = events \cup {Finalized(blob_name, "upload")}
              /\ uuidCtr' = uuidCtr + 1
              /\ req' = [req EXCEPT ![r] =
                    Continue([q EXCEPT !.put = "ok", !.storage_path = blob_name],
                             "put")]
           \/ \* the name drawn for a failed put is never seen again
              /\ UNCHANGED << blobs, uuidCtr, events >>
              /\ req' = [req EXCEPT ![r] = Abort([q EXCEPT !.put = "fail"])]
    /\ UNCHANGED << photos, docs, albumStores, users, wk >>

\* mutant of create_photo: the row is inserted as processed
create_photo_as_processed(r) ==
    /\ req[r].pc = "insert"
    /\ LET q == req[r]
           id == uuid4
           row == [user_id |-> q.user, storage_path |-> q.storage_path,
                   status |-> PROCESSED]
           inserted == [x \in DOMAIN photos \cup {id} |->
                           IF x = id THEN row ELSE photos[x]]
       IN  \/ /\ photos' = inserted
              /\ uuidCtr' = uuidCtr + 1
              /\ req' = [req EXCEPT ![r] =
                    Continue([q EXCEPT !.ins = "ok", !.tx = TRUE, !.pid = id,
                                       !.photo = row.status], "insert")]
           \/ /\ UNCHANGED << photos, uuidCtr >>
              /\ req' = [req EXCEPT ![r] = Abort([q EXCEPT !.ins = "fail"])]
    /\ UNCHANGED << blobs, docs, albumStores, sideVars >>

\* PhotoService.create_photo -> PhotoRepository.create (add, commit, refresh)
create_photo(r) ==
    /\ req[r].pc = "insert"
    /\ LET q == req[r]
           id == uuid4
           row == [user_id |-> q.user, storage_path |-> q.storage_path,
                   status |-> UPLOADING]
           inserted == [x \in DOMAIN photos \cup {id} |->
                           IF x = id THEN row ELSE photos[x]]
       IN  \/ /\ photos' = inserted
              /\ uuidCtr' = uuidCtr + 1
              /\ req' = [req EXCEPT ![r] =
                    Continue([q EXCEPT !.ins = "ok", !.tx = TRUE, !.pid = id,
                                       !.photo = row.status], "insert")]
           \/ \* the commit went through, the refresh raised
              /\ photos' = inserted
              /\ uuidCtr' = uuidCtr + 1
              /\ req' = [req EXCEPT ![r] =
                    Abort([q EXCEPT !.ins = "refresh_fail", !.pid = id])]
           \/ /\ UNCHANGED << photos, uuidCtr >>
              /\ req' = [req EXCEPT ![r] = Abort([q EXCEPT !.ins = "fail"])]
    /\ UNCHANGED << blobs, docs, albumStores, sideVars >>

\* the status the handler passes to save_photo_metadata
MetadataStatus(kind) == IF kind = "upload" THEN UPLOADING ELSE PROCESSED

\* mutant of Metadata: the provenance flag of a generated image is not set
Metadata_not_ai(q) ==
    LET base == [ photo_id |-> UuidStr(q.pid), user_id |-> q.user,
                  storage_path |-> q.storage_path, filename |-> q.filename,
                  content_type |-> q.content_type, file_size |-> q.file_size,
                  status |-> MetadataStatus(q.kind) ]
        ai == [ ai_generated |-> FALSE, ai_prompt |-> q.prompt,
                ai_aspect_ratio |-> q.aspect_ratio,
                ai_model |-> GEMINI_IMAGE_MODEL ]
        ref == [ ai_reference_image |-> q.reference ]
    IN  IF q.kind = "upload" THEN base
        ELSE IF q.kind = "gen_text" THEN base @@ ai
        ELSE base @@ ai @@ ref

\* the document save_photo_metadata builds (server timestamps left out)
Metadata(q) ==
    LET base == [ photo_id |-> UuidStr(q.pid), user_id |-> q.user,
                  storage_path |-> q.storage_path, filename |-> q.filename,
                  content_type |-> q.content_type, file_size |-> q.file_size,
                  status |-> MetadataStatus(q.kind) ]
        ai == [ ai_generated |-> TRUE, ai_prompt |-> q.prompt,
                ai_aspect_ratio |-> q.aspect_ratio,
                ai_model |-> GEMINI_IMAGE_MODEL ]
        ref == [ ai_reference_image |-> q.reference ]
    IN  IF q.kind = "upload" THEN base
        ELSE IF q.kind = "gen_text" THEN base @@ ai
        ELSE base @@ ai @@ ref

\* doc_ref.set(metadata): the document is replaced as a whole
DocSet(key, doc) ==
    [k \in DOMAIN docs \cup {key} |-> IF k = key THEN doc ELSE docs[k]]

\* mutant of save_photo_metadata: the Firestore error leaves the service
save_photo_metadata_raises(r) ==
    /\ req[r].pc = "meta"
    /\ LET q == req[r]
       IN  \/ /\ docs' = DocSet(UuidStr(q.pid), Metadata(q))
              /\ req' = [req EXCEPT ![r] = Continue([q EXCEPT !.meta = "ok"], "meta")]
           \/ /\ docs' = docs
              /\ req' = [req EXCEPT ![r] = Abort([q EXCEPT !.meta = "fail"])]
    /\ UNCHANGED << photos, blobs, uuidCtr, albumStores, sideVars >>

\* FirestoreService.save_photo_metadata: GoogleCloudError is caught, the
\* handler ignores the returned bool
save_photo_metadata(r) ==
    /\ req[r].pc = "meta"
    /\ LET q == req[r]
       IN  \/ /\ docs' = DocSet(UuidStr(q.pid), Metadata(q))
              /\ req' = [req EXCEPT ![r] = Continue([q EXCEPT !.meta = "ok"], "meta")]
           \/ /\ docs' = docs
              /\ req' = [req EXCEPT ![r] = Continue([q EXCEPT !.meta = "fail"], "meta")]
    /\ UNCHANGED << photos, blobs, uuidCtr, albumStores, sideVars >>

\* mutant of update_photo_get: a failed read marks the row failed
update_photo_get_marks_failed(r) ==
    /\ req[r].pc = "mark_sel"
    /\ LET q == req[r]
       IN  \/ /\ req' = [req EXCEPT ![r] =
                    IF q.pid \in DOMAIN photos
                    THEN [q EXCEPT !.sel = "found", !.tx = TRUE, !.pc = "mark_upd"]
                    ELSE Continue([q EXCEPT !.sel = "norow", !.tx = TRUE], "mark_sel")]
              /\ photos' = photos
           \/ /\ req' = [req EXCEPT ![r] = Abort([q EXCEPT !.sel = "fail"])]
              /\ photos' = IF q.pid \in DOMAIN photos
                           THEN [photos EXCEPT ![q.pid].status = FAILED]
                           ELSE photos
    /\ UNCHANGED << blobs, docs, uuidCtr, albumStores, sideVars >>

\* PhotoService.mark_as_processed -> update_photo: the get_by_id before the
\* update; a missing row makes update_photo return None without an error
update_photo_get(r) ==
    /\ req[r].pc = "mark_sel"
    /\ LET q == req[r]
       IN  \/ req' = [req EXCEPT ![r] =
                 IF q.pid \in DOMAIN photos
                 THEN [q EXCEPT !.sel = "found", !.tx = TRUE, !.pc = "mark_upd"]
                 ELSE Continue([q EXCEPT !.sel = "norow", !.tx = TRUE], "mark_sel")]
           \/ req' = [req EXCEPT ![r] = Abort([q EXCEPT !.sel = "fail"])]
    /\ UNCHANGED << stores, uuidCtr, albumStores, sideVars >>

\* mutant of UpdateStatus: the statement changes no row
UpdateStatus_noop(id, status) == photos

\* UPDATE photos SET status = :status WHERE id = :photo_id
UpdateStatus(id, status) ==
    IF id \in DOMAIN photos THEN [photos EXCEPT ![id].status = status] ELSE photos

\* mutant of update_photo_write: a failed update takes the row away
update_photo_write_rollback(r) ==
    /\ req[r].pc = "mark_upd"
    /\ LET q == req[r]
       IN  \/ /\ photos' = [photos EXCEPT ![q.pid].status = PROCESSED]
              /\ q.pid \in DOMAIN photos
              /\ req' = [req EXCEPT ![r] =
                    Continue([q EXCEPT !.upd = "ok", !.tx = TRUE], "mark_sel")]
           \/ /\ photos' = [x \in DOMAIN photos \ {q.pid} |-> photos[x]]
              /\ req' = [req EXCEPT ![r] = Abort([q EXCEPT !.upd = "fail"])]
    /\ UNCHANGED << blobs, docs, uuidCtr, albumStores, sideVars >>

\* PhotoRepository.update_photo: execute + commit, then get_by_id
update_photo_write(r) ==
    /\ req[r].pc = "mark_upd"
    /\ LET q == req[r]
       IN  \/ /\ photos' = UpdateStatus(q.pid, PROCESSED)
              /\ req' = [req EXCEPT ![r] =
                    Continue([q EXCEPT !.upd = "ok", !.tx = TRUE], "mark_sel")]
           \/ \* the commit went through, the get_by_id after it raised
              /\ photos' = UpdateStatus(q.pid, PROCESSED)
              /\ req' = [req EXCEPT ![r] = Abort([q EXCEPT !.upd = "reread_fail"])]
           \/ /\ photos' = photos
              /\ req' = [req EXCEPT ![r] = Abort([q EXCEPT !.upd = "fail"])]
    /\ UNCHANGED << blobs, docs, uuidCtr, albumStores, sideVars >>

\* FirestoreService.update_photo_metadata(photo_id, status="processed"):
\* doc_ref.update raises NotFound (a GoogleCloudError) on a missing document
update_photo_metadata(r) ==
    /\ req[r].pc = "meta_upd"
    /\ LET q == req[r]
           key == UuidStr(q.pid)
       IN  /\ \/ docs' = IF key \in DOMAIN docs
                         THEN [docs EXCEPT ![key].status = PROCESSED]
                         ELSE docs
              \/ docs' = docs
           /\ req' = [req EXCEPT ![r] = Continue(q, "meta_upd")]
    /\ UNCHANGED << photos, blobs, uuidCtr, albumStores, sideVars >>

----------------------------------------------------------------------------
(* POST /ai-photos/generate and /ai-photos/generate-from-reference *)

\* mutant of RatioValidation: every ratio passes
RatioValidation_any(aspect_ratio) == 0

\* the aspect-ratio check of both handlers; 0 when the ratio is supported
RatioValidation(aspect_ratio) ==
    IF aspect_ratio \notin Range(get_supported_aspect_ratios)
    THEN HTTP_400_BAD_REQUEST ELSE 0

\* generate_photo_from_reference: reference content-type check, then the ratio
ReferenceValidation(content_type, aspect_ratio) ==
    IF content_type \notin ALLOWED_IMAGE_TYPES THEN HTTP_400_BAD_REQUEST
    ELSE RatioValidation(aspect_ratio)

\* generate_photo_from_text up to the try block
StartGenerateText(r) ==
    /\ Arrives(r)
    /\ \E u \in Callers, ar \in AspectRatios, p \in Prompts :
         LET q == [IdleReq EXCEPT !.kind = "gen_text", !.user = u,
                                  !.aspect_ratio = ar, !.prompt = p]
             v == RatioValidation(ar)
         IN  req' = [req EXCEPT ![r] =
                        IF v # 0 THEN Respond(q, v)
                        ELSE [q EXCEPT !.pc = GenerateFlow[1]]]
    /\ UNCHANGED << stores, uuidCtr, albumStores, sideVars >>

\* generate_photo_from_reference up to the try block
StartGenerateReference(r) ==
    /\ Arrives(r)
    /\ \E u \in Callers, ar \in AspectRatios, p \in Prompts,
          ct \in ContentTypes, fn \in Filenames :
         LET q == [IdleReq EXCEPT !.kind = "gen_ref", !.user = u,
                                  !.aspect_ratio = ar, !.prompt = p,
                                  !.reference = fn]
             v == ReferenceValidation(ct, ar)
         IN  req' = [req EXCEPT ![r] =
                        IF v # 0 THEN Respond(q, v)
                        ELSE [q EXCEPT !.pc = GenerateFlow[1]]]
    /\ UNCHANGED << stores, uuidCtr, albumStores, sideVars >>

\* mutant of generate_image_from_text: a failed generation is swallowed
generate_image_from_text_swallow(r) ==
    /\ req[r].pc = "ai"
    /\ req[r].kind = "gen_text"
    /\ LET q == req[r]
       IN  \E n \in ImageSizes, mt \in ImageTypes, o \in {"ok", "fail"} :
                req' = [req EXCEPT ![r] =
                   Continue([q EXCEPT !.ai = o, !.content_type = mt,
                                      !.file_size = n,
                                      !.filename = AiFilename("ai_generated_",
                                                              q.aspect_ratio)],
                            "ai")]
    /\ UNCHANGED << stores, uuidCtr, albumStores, sideVars >>

\* AIImageGeneratorService.generate_image_from_text, then the handler builds
\* the file name; the adapter raises Exception on any failure
generate_image_from_text(r) ==
    /\ req[r].pc = "ai"
    /\ req[r].kind = "gen_text"
    /\ LET q == req[r]
       IN  \/ \E n \in ImageSizes, mt \in ImageTypes :
                req' = [req EXCEPT ![r] =
                   Continue([q EXCEPT !.ai = "ok", !.content_type = mt,
                                      !.file_size = n,
                                      !.filename = AiFilename("ai_generated_",
                                                              q.aspect_ratio)],
                            "ai")]
           \/ req' = [req EXCEPT ![r] = Abort([q EXCEPT !.ai = "fail"])]
    /\ UNCHANGED << stores, uuidCtr, albumStores, sideVars >>

\* generate_photo_from_reference calls generate_image_from_text_and_image with
\* the keyword reference_mime_type, which the method does not take: the call
\* raises TypeError before the adapter runs, and the handler answers 500
generate_image_from_text_and_image(r) ==
    /\ req[r].pc = "ai"
    /\ req[r].kind = "gen_ref"
    /\ req' = [req EXCEPT ![r] = Abort([req[r] EXCEPT !.ai = "type_error"])]
    /\ UNCHANGED << stores, uuidCtr, albumStores, sideVars >>

----------------------------------------------------------------------------
(* GET /photos/{photo_id} *)

\* the photo ids a client can name: the ids of the photos created or named so
\* far, and an id of no photo (0)
Targets ==
    {0} \cup DOMAIN photos \cup {req[q].pid : q \in Slots}
        \cup {req[q].target : q \in Slots}

StartGet(r) ==
    /\ Arrives(r)
    /\ \E u \in Callers, t \in Targets :
         req' = [req EXCEPT ![r] =
                    [IdleReq EXCEPT !.kind = "get", !.user = u, !.target = t,
                                    !.pc = "get"]]
    /\ UNCHANGED << stores, uuidCtr, albumStores, sideVars >>

\* mutant of OwnerCheck: a missing row is answered like a row of another user
OwnerCheck_missing_forbidden(photo_id, user_id) ==
    IF photo_id \notin DOMAIN photos THEN HTTP_403_FORBIDDEN
    ELSE IF photos[photo_id].user_id # user_id THEN HTTP_403_FORBIDDEN
    ELSE 0

\* the handler's answer after get_photo_by_id: 404, 403 or 0 to go on
OwnerCheck(photo_id, user_id) ==
    IF photo_id \notin DOMAIN photos THEN HTTP_404_NOT_FOUND
    ELSE IF photos[photo_id].user_id # user_id THEN HTTP_403_FORBIDDEN
    ELSE 0

\* mutant of get_photo: a photo without a metadata document is not found
get_photo_needs_document(r) ==
    /\ req[r].pc = "get"
    /\ LET q == req[r]
           v == OwnerCheck(q.target, q.user)
       IN  \/ req' = [req EXCEPT ![r] =
                 IF v # 0 THEN Respond(q, v)
                 ELSE IF UuidStr(q.target) \notin DOMAIN docs
                 THEN Respond([q EXCEPT !.sel = "found"], HTTP_404_NOT_FOUND)
                 ELSE Respond([q EXCEPT !.sel = "found",
                                        !.resp = photos[q.target].status],
                              HTTP_200_OK)]
           \/ req' = [req EXCEPT ![r] = Abort([q EXCEPT !.sel = "fail"])]
    /\ UNCHANGED << stores, uuidCtr, albumStores, sideVars >>

\* get_photo; an error of the SELECT leaves the handler as a 500
get_photo(r) ==
    /\ req[r].pc = "get"
    /\ LET q == req[r]
           v == OwnerCheck(q.target, q.user)
       IN  \/ req' = [req EXCEPT ![r] =
                 IF v # 0 THEN Respond(q, v)
                 ELSE Respond([q EXCEPT !.sel = "found",
                                        !.resp = photos[q.target].status],
                              HTTP_200_OK)]
           \/ req' = [req EXCEPT ![r] = Abort([q EXCEPT !.sel = "fail"])]
    /\ UNCHANGED << stores, uuidCtr, albumStores, sideVars >>

----------------------------------------------------------------------------
(* GET /photos and GET /photos/{photo_id}/thumbnails *)

StartList(r) ==
    /\ Arrives(r)
    /\ \E u \in Callers :
         req' = [req EXCEPT ![r] =
                    [IdleReq EXCEPT !.kind = "list", !.user = u, !.pc = "list"]]
    /\ UNCHANGED << stores, uuidCtr, albumStores, sideVars >>

\* get_by_user_id: the rows of the user (default skip and limit)
UserPhotos(user_id) == {id \in DOMAIN photos : photos[id].user_id = user_id}

\* get_my_photos without a status filter; an error of the SELECT is a 500
get_my_photos(r) ==
    /\ req[r].pc = "list"
    /\ LET q == req[r]
       IN  \/ req' = [req EXCEPT ![r] =
                 Respond([q EXCEPT !.sel = "found", !.rows = UserPhotos(q.user)],
                         HTTP_200_OK)]
           \/ req' = [req EXCEPT ![r] = Abort([q EXCEPT !.sel = "fail"])]
    /\ UNCHANGED << stores, uuidCtr, albumStores, sideVars >>

StartThumbnails(r) ==
    /\ Arrives(r)
    /\ \E u \in Callers, t \in Targets :
         req' = [req EXCEPT ![r] =
                    [IdleReq EXCEPT !.kind = "thumbnails", !.user = u,
                                    !.target = t, !.pc = "thumb_row"]]
    /\ UNCHANGED << stores, uuidCtr, albumStores, sideVars >>

\* get_photo_thumbnails: the row lookup and the two checks on it
thumbnails_get_photo_by_id(r) ==
    /\ req[r].pc = "thumb_row"
    /\ LET q == req[r]
           v == OwnerCheck(q.target, q.user)
       IN  \/ req' = [req EXCEPT ![r] =
                 IF v # 0 THEN Respond(q, v)
                 ELSE [q EXCEPT !.sel = "found", !.tx = TRUE, !.pc = "thumb_meta"]]
           \/ req' = [req EXCEPT ![r] = Abort([q EXCEPT !.sel = "fail"])]
    /\ UNCHANGED << stores, uuidCtr, albumStores, sideVars >>

\* gcs_path.replace("gs://", "").split("/", 1): the blob name of a gs:// URL,
\* or the empty name when the URL does not have the two parts
BlobNameOfUrl(gcs_path) ==
    LET rest == SelectSeq(gcs_path, LAMBDA x : x # "gs://")
    IN  IF gcs_path # << >> /\ gcs_path[1] = "gs://" /\ "/" \in Range(rest)
        THEN LET i == CHOOSE j \in DOMAIN rest :
                          rest[j] = "/" /\ \A k \in 1..(j - 1) : rest[k] # "/"
             IN  SubSeq(rest, i + 1, Len(rest))
        ELSE << >>

\* the thumbnails of a metadata document that get a signed URL
SignedThumbnails(metadata) ==
    LET thumbnails == metadata.thumbnails
        valid == {n \in DOMAIN thumbnails :
                     /\ thumbnails[n] # << >>
                     /\ thumbnails[n][1] = "gs://"
                     /\ "/" \in Range(SelectSeq(thumbnails[n],
                                                LAMBDA x : x # "gs://"))}
    IN  [n \in valid |-> BlobNameOfUrl(thumbnails[n])]

\* get_photo_thumbnails after the checks: get_photo_metadata (None when the
\* document is missing or Firestore fails), then a signed URL per thumbnail;
\* an error of generate_signed_url leaves the handler as a 500
thumbnails_get_photo_metadata(r) ==
    /\ req[r].pc = "thumb_meta"
    /\ LET q == req[r]
           key == UuidStr(q.target)
       IN  \/ /\ key \in DOMAIN docs
              /\ "thumbnails" \in DOMAIN docs[key]
              /\ LET thumbnail_urls == SignedThumbnails(docs[key])
                 IN  req' = [req EXCEPT ![r] =
                        IF thumbnail_urls = << >>
                        THEN Respond([q EXCEPT !.meta = "ok"], HTTP_404_NOT_FOUND)
                        ELSE Respond([q EXCEPT !.meta = "ok",
                                               !.urls = thumbnail_urls],
                                     HTTP_200_OK)]
           \/ /\ key \in DOMAIN docs
              /\ "thumbnails" \in DOMAIN docs[key]
              /\ SignedThumbnails(docs[key]) # << >>
              /\ req' = [req EXCEPT ![r] = Abort([q EXCEPT !.meta = "ok"])]
           \/ /\ ~(key \in DOMAIN docs /\ "thumbnails" \in DOMAIN docs[key])
              /\ req' = [req EXCEPT ![r] =
                    Respond([q EXCEPT !.meta = "ok"], HTTP_404_NOT_FOUND)]
           \/ req' = [req EXCEPT ![r] =
                    Respond([q EXCEPT !.meta = "fail"], HTTP_404_NOT_FOUND)]
    /\ UNCHANGED << stores, uuidCtr, albumStores, sideVars >>

----------------------------------------------------------------------------
(* GET /photos/{photo_id}/url and GET /photos/{photo_id}/metadata *)

StartUrl(r) ==
    /\ Arrives(r)
    /\ \E u \in Callers, t \in Targets :
         req' = [req EXCEPT ![r] =
                    [IdleReq EXCEPT !.kind = "url", !.user = u, !.target = t,
                                    !.pc = "url_row"]]
    /\ UNCHANGED << stores, uuidCtr, albumStores, sideVars >>

\* get_photo_url: the row lookup and the two checks on it
url_get_photo_by_id(r) ==
    /\ req[r].pc = "url_row"
    /\ LET q == req[r]
           v == OwnerCheck(q.target, q.user)
       IN  \/ req' = [req EXCEPT ![r] =
                 IF v # 0 THEN Respond(q, v)
                 ELSE [q EXCEPT !.sel = "found", !.tx = TRUE,
                                !.storage_path = photos[q.target].storage_path,
                                !.pc = "url_sign"]]
           \/ req' = [req EXCEPT ![r] = Abort([q EXCEPT !.sel = "fail"])]
    /\ UNCHANGED << stores, uuidCtr, albumStores, sideVars >>

\* get_signed_url signs the name locally (the blob is not looked up); an
\* error of generate_signed_url leaves the handler as a 500
get_signed_url(r) ==
    /\ req[r].pc = "url_sign"
    /\ LET q == req[r]
       IN  \/ req' = [req EXCEPT ![r] =
                 Respond([q EXCEPT !.urls = [n \in {"url"} |-> q.storage_path]],
                         HTTP_200_OK)]
           \/ req' = [req EXCEPT ![r] = Abort(q)]
    /\ UNCHANGED << stores, uuidCtr, albumStores, sideVars >>

StartMetadata(r) ==
    /\ Arrives(r)
    /\ \E u \in Callers, t \in Targets :
         req' = [req EXCEPT ![r] =
                    [IdleReq EXCEPT !.kind = "metadata", !.user = u,
                                    !.target = t, !.pc = "md_row"]]
    /\ UNCHANGED << stores, uuidCtr, albumStores, sideVars >>

\* get_photo_metadata (the endpoint): the row lookup and the two checks on it
metadata_get_photo_by_id(r) ==
    /\ req[r].pc = "md_row"
    /\ LET q == req[r]
           v == OwnerCheck(q.target, q.user)
       IN  \/ req' = [req EXCEPT ![r] =
                 IF v # 0 THEN Respond(q, v)
                 ELSE [q EXCEPT !.sel = "found", !.tx = TRUE, !.pc = "md_meta"]]
           \/ req' = [req EXCEPT ![r] = Abort([q EXCEPT !.sel = "fail"])]
    /\ UNCHANGED << stores, uuidCtr, albumStores, sideVars >>

\* the endpoint after the checks: FirestoreService.get_photo_metadata gives
\* the document, or None when it is missing or Firestore fails (a 404)
metadata_get_photo_metadata(r) ==
    /\ req[r].pc = "md_meta"
    /\ LET q == req[r]
           key == UuidStr(q.target)
       IN  \/ /\ key \in DOMAIN docs
              /\ req' = [req EXCEPT ![r] =
                    Respond([q EXCEPT !.meta = "ok", !.resp = docs[key].status],
                            HTTP_200_OK)]
           \/ /\ key \notin DOMAIN docs
              /\ req' = [req EXCEPT ![r] =
                    Respond([q EXCEPT !.meta = "ok"], HTTP_404_NOT_FOUND)]
           \/ req' = [req EXCEPT ![r] =
                    Respond([q EXCEPT !.meta = "fail"], HTTP_404_NOT_FOUND)]
    /\ UNCHANGED << stores, uuidCtr, albumStores, sideVars >>

----------------------------------------------------------------------------
(* POST /photos and PATCH /photos/{photo_id} *)

\* a storage_path a client sends: a path nothing was stored under
ClientPath == << "elsewhere", ".", "jpg" >>

\* PhotoCreateRequest: storage_path (min_length 1) and status
CreateBodies ==
    {[storage_path |-> ClientPath, status |-> st] : st \in {UPLOADING, PROCESSED}}

\* PhotoUpdateRequest: both fields optional (None is NoPath and "")
UpdateBodies ==
    { [storage_path |-> NoPath, status |-> ""],
      [storage_path |-> NoPath, status |-> PROCESSED],
      [storage_path |-> NoPath, status |-> FAILED],
      [storage_path |-> ClientPath, status |-> ""] }

StartCreate(r) ==
    /\ Arrives(r)
    /\ \E u \in Callers, b \in CreateBodies :
         req' = [req EXCEPT ![r] =
                    [IdleReq EXCEPT !.kind = "create", !.user = u,
                                    !.storage_path = b.storage_path,
                                    !.status = b.status, !.pc = "create"]]
    /\ UNCHANGED << stores, uuidCtr, albumStores, sideVars >>

\* create_photo of the router: PhotoRepository.create with the storage_path
\* and the status of the body; an exception leaves the handler as a 500
create_photo_record(r) ==
    /\ req[r].pc = "create"
    /\ LET q == req[r]
           id == uuid4
           row == [user_id |-> q.user, storage_path |-> q.storage_path,
                   status |-> q.status]
           inserted == [x \in DOMAIN photos \cup {id} |->
                           IF x = id THEN row ELSE photos[x]]
       IN  \/ /\ photos' = inserted
              /\ uuidCtr' = uuidCtr + 1
              /\ req' = [req EXCEPT ![r] =
                    Respond([q EXCEPT !.ins = "ok", !.pid = id,
                                      !.photo = row.status, !.resp = row.status],
                            HTTP_201_CREATED)]
           \/ \* the commit went through, the refresh raised
              /\ photos' = inserted
              /\ uuidCtr' = uuidCtr + 1
              /\ req' = [req EXCEPT ![r] =
                    Abort([q EXCEPT !.ins = "refresh_fail", !.pid = id])]
           \/ /\ UNCHANGED << photos, uuidCtr >>
              /\ req' = [req EXCEPT ![r] = Abort([q EXCEPT !.ins = "fail"])]
    /\ UNCHANGED << blobs, docs, albumStores, sideVars >>

StartPatch(r) ==
    /\ Arrives(r)
    /\ \E u \in Callers, t \in Targets, b \in UpdateBodies :
         req' = [req EXCEPT ![r] =
                    [IdleReq EXCEPT !.kind = "patch", !.user = u, !.target = t,
                                    !.storage_path = b.storage_path,
                                    !.status = b.status, !.pc = "patch_own"]]
    /\ UNCHANGED << stores, uuidCtr, albumStores, sideVars >>

\* update_photo of the router: verify_photo_ownership
patch_verify_photo_ownership(r) ==
    /\ req[r].pc = "patch_own"
    /\ LET q == req[r]
       IN  \/ req' = [req EXCEPT ![r] =
                 IF q.target \in DOMAIN photos
                       /\ photos[q.target].user_id = q.user
                 THEN [q EXCEPT !.tx = TRUE, !.pc = "patch_get"]
                 ELSE [q EXCEPT !.chk = "owner", !.tx = TRUE, !.pc = "patch_exists"]]
           \/ req' = [req EXCEPT ![r] = Abort([q EXCEPT !.sel = "fail"])]
    /\ UNCHANGED << stores, uuidCtr, albumStores, sideVars >>

\* update_photo of the router: photo_exists, then 404 or 403
patch_photo_exists(r) ==
    /\ req[r].pc = "patch_exists"
    /\ LET q == req[r]
       IN  \/ req' = [req EXCEPT ![r] =
                 IF q.target \in DOMAIN photos
                 THEN Respond(q, HTTP_403_FORBIDDEN)
                 ELSE Respond(q, HTTP_404_NOT_FOUND)]
           \/ req' = [req EXCEPT ![r] = Abort([q EXCEPT !.sel = "fail"])]
    /\ UNCHANGED << stores, uuidCtr, albumStores, sideVars >>

\* PhotoService.update_photo: get_by_id; None goes back to the handler, whose
\* return of None fails the validation of the response model (a 500)
patch_get_by_id(r) ==
    /\ req[r].pc = "patch_get"
    /\ LET q == req[r]
       IN  \/ req' = [req EXCEPT ![r] =
                 IF q.target \in DOMAIN photos
                 THEN [q EXCEPT !.sel = "found", !.tx = TRUE, !.pc = "patch_upd"]
                 ELSE Abort([q EXCEPT !.sel = "none"])]
           \/ req' = [req EXCEPT ![r] = Abort([q EXCEPT !.sel = "fail"])]
    /\ UNCHANGED << stores, uuidCtr, albumStores, sideVars >>

\* the row after UPDATE photos SET ... WHERE id = photo_id
UpdateRow(id, storage_path, status) ==
    IF id \in DOMAIN photos
    THEN [photos EXCEPT
            ![id] = [@ EXCEPT
                       !.storage_path =
                           IF storage_path # NoPath THEN storage_path ELSE @,
                       !.status = IF status # "" THEN status ELSE @]]
    ELSE photos

\* PhotoRepository.update_photo: with no field nothing is written; else
\* execute + commit; then get_by_id, whose None is a 500 as above
patch_update_photo(r) ==
    /\ req[r].pc = "patch_upd"
    /\ LET q == req[r]
           written == UpdateRow(q.target, q.storage_path, q.status)
       IN  \/ /\ photos' = written
              /\ req' = [req EXCEPT ![r] =
                    IF q.target \in DOMAIN photos
                    THEN Respond([q EXCEPT !.upd = "ok",
                                           !.resp = written[q.target].status],
                                 HTTP_200_OK)
                    ELSE Abort([q EXCEPT !.upd = "none"])]
           \/ \* the commit went through, the get_by_id after it raised
              /\ photos' = written
              /\ req' = [req EXCEPT ![r] = Abort([q EXCEPT !.upd = "reread_fail"])]
           \/ /\ photos' = photos
              /\ req' = [req EXCEPT ![r] = Abort([q EXCEPT !.upd = "fail"])]
    /\ UNCHANGED << blobs, docs, uuidCtr, albumStores, sideVars >>

----------------------------------------------------------------------------
(* DELETE /photos/{photo_id} *)

StartDelete(r) ==
    /\ Arrives(r)
    /\ \E u \in Callers, t \in Targets :
         LET q == [IdleReq EXCEPT !.kind = "delete", !.user = u, !.target = t,
                                  !.pc = "del_sel"]
         IN  req' = [req EXCEPT ![r] = q]
    /\ UNCHANGED << stores, uuidCtr, albumStores, sideVars >>

\* mutant of delete_photo_check: the owner of the row is not compared
delete_photo_check_any_owner(r) ==
    /\ req[r].pc = "del_sel"
    /\ LET q == req[r]
       IN  \/ req' = [req EXCEPT ![r] =
                 IF q.target \notin DOMAIN photos
                 THEN Respond(q, HTTP_404_NOT_FOUND)
                 ELSE [q EXCEPT !.sel = "found", !.tx = TRUE, !.pc = "del_blob",
                                !.storage_path = photos[q.target].storage_path]]
           \/ req' = [req EXCEPT ![r] = Abort([q EXCEPT !.sel = "fail"])]
    /\ UNCHANGED << stores, uuidCtr, albumStores, sideVars >>

\* delete_photo: get_photo_by_id and the 404 / 403 checks
delete_photo_check(r) ==
    /\ req[r].pc = "del_sel"
    /\ LET q == req[r]
           v == OwnerCheck(q.target, q.user)
       IN  \/ req' = [req EXCEPT ![r] =
                 IF v # 0 THEN Respond(q, v)
                 ELSE [q EXCEPT !.sel = "found", !.tx = TRUE, !.pc = "del_blob",
                                !.storage_path = photos[q.target].storage_path]]
           \/ req' = [req EXCEPT ![r] = Abort([q EXCEPT !.sel = "fail"])]
    /\ UNCHANGED << stores, uuidCtr, albumStores, sideVars >>

\* mutant of delete_file: the storage error leaves the service
delete_file_raises(r) ==
    /\ req[r].pc = "del_blob"
    /\ LET q == req[r]
       IN  \/ /\ blobs' = blobs \ {q.storage_path}
              /\ req' = [req EXCEPT ![r] =
                    IF q.storage_path \in blobs
                    THEN [q EXCEPT !.pc = "del_doc", !.put = "deleted"]
                    ELSE Abort([q EXCEPT !.put = "fail"])]
           \/ /\ blobs' = blobs
              /\ req' = [req EXCEPT ![r] = Abort([q EXCEPT !.put = "fail"])]
    /\ UNCHANGED << photos, docs, uuidCtr, albumStores, sideVars >>

\* StorageService.delete_file: GoogleCloudError (NotFound for a missing blob
\* included) is caught and turned into False, which the handler ignores
delete_file(r) ==
    /\ req[r].pc = "del_blob"
    /\ LET q == req[r]
       IN  \/ /\ blobs' = blobs \ {q.storage_path}
              /\ req' = [req EXCEPT ![r] =
                    [q EXCEPT !.pc = "del_doc",
                              !.put = IF q.storage_path \in blobs
                                      THEN "deleted" ELSE "fail"]]
           \/ /\ blobs' = blobs
              /\ req' = [req EXCEPT ![r] = [q EXCEPT !.pc = "del_doc", !.put = "fail"]]
    /\ UNCHANGED << photos, docs, uuidCtr, albumStores, sideVars >>

\* doc_ref.delete(): deleting a missing document is not an error
DocDelete(key) == [k \in DOMAIN docs \ {key} |-> docs[k]]

\* FirestoreService.delete_photo_metadata: GoogleCloudError is caught
delete_photo_metadata(r) ==
    /\ req[r].pc = "del_doc"
    /\ LET q == req[r]
       IN  \/ /\ docs' = DocDelete(UuidStr(q.target))
              /\ req' = [req EXCEPT ![r] = [q EXCEPT !.pc = "del_row_sel", !.meta = "ok"]]
           \/ /\ docs' = docs
              /\ req' = [req EXCEPT ![r] = [q EXCEPT !.pc = "del_row_sel", !.meta = "fail"]]
    /\ UNCHANGED << photos, blobs, uuidCtr, albumStores, sideVars >>

\* PhotoRepository.delete_photo: get_by_id; a missing row returns False, which
\* the handler ignores (204)
delete_photo_get(r) ==
    /\ req[r].pc = "del_row_sel"
    /\ LET q == req[r]
       IN  \/ req' = [req EXCEPT ![r] =
                 IF q.target \in DOMAIN photos
                 THEN [q EXCEPT !.pc = "del_row"]
                 ELSE Respond([q EXCEPT !.del = "norow"], HTTP_204_NO_CONTENT)]
           \/ req' = [req EXCEPT ![r] = Abort([q EXCEPT !.del = "fail"])]
    /\ UNCHANGED << stores, uuidCtr, albumStores, sideVars >>

\* DELETE FROM photos WHERE id = :photo_id
DeleteRow(id) == [x \in DOMAIN photos \ {id} |-> photos[x]]

\* album_photos.photo_id: ForeignKey("photos.id", ondelete="CASCADE")
CascadePhoto(id) ==
    [x \in {y \in DOMAIN album_photos : album_photos[y].photo_id # id} |->
        album_photos[x]]

\* mutant of delete_photo_write: a DELETE that matches no row raises
delete_photo_write_stale(r) ==
    /\ req[r].pc = "del_row"
    /\ LET q == req[r]
       IN  \/ /\ photos' = DeleteRow(q.target)
              /\ album_photos' = CascadePhoto(q.target)
              /\ req' = [req EXCEPT ![r] =
                    IF q.target \in DOMAIN photos
                    THEN Respond([q EXCEPT !.del = "deleted"], HTTP_204_NO_CONTENT)
                    ELSE Abort([q EXCEPT !.del = "norow"])]
           \/ /\ photos' = photos
              /\ album_photos' = album_photos
              /\ req' = [req EXCEPT ![r] = Abort([q EXCEPT !.del = "fail"])]
    /\ UNCHANGED << blobs, docs, uuidCtr, albums, sideVars >>

\* PhotoRepository.delete_photo: execute + commit
delete_photo_write(r) ==
    /\ req[r].pc = "del_row"
    /\ LET q == req[r]
       IN  \/ /\ photos' = DeleteRow(q.target)
              /\ album_photos' = CascadePhoto(q.target)
              /\ req' = [req EXCEPT ![r] =
                    Respond([q EXCEPT !.del = IF q.target \in DOMAIN photos
                                              THEN "deleted" ELSE "norow"],
                            HTTP_204_NO_CONTENT)]
           \/ /\ photos' = photos
              /\ album_photos' = album_photos
              /\ req' = [req EXCEPT ![r] = Abort([q EXCEPT !.del = "fail"])]
    /\ UNCHANGED << blobs, docs, uuidCtr, albums, sideVars >>

----------------------------------------------------------------------------
(* POST /albums/{album_id}/photos/{photo_id} *)

\* the album ids a client can name: the albums, and an id of no album (0)
AlbumTargets == {0} \cup DOMAIN albums

StartAdd(r) ==
    /\ Arrives(r)
    /\ \E u \in Callers, a \in AlbumTargets, t \in Targets :
         LET q == [IdleReq EXCEPT !.kind = "add", !.user = u, !.album = a,
                                  !.target = t, !.pc = "add_album"]
         IN  req' = [req EXCEPT ![r] = q]
    /\ UNCHANGED << stores, uuidCtr, albumStores, sideVars >>

\* AlbumService.add_photo_to_album: the album check; a False result sends the
\* handler to its ownership re-check
add_get_album(r) ==
    /\ req[r].pc = "add_album"
    /\ LET q == req[r]
       IN  \/ req' = [req EXCEPT ![r] =
                 IF q.album \notin DOMAIN albums
                       \/ albums[q.album].user_id # q.user
                 THEN [q EXCEPT !.chk = "album", !.tx = TRUE, !.pc = "add_own"]
                 ELSE [q EXCEPT !.tx = TRUE, !.pc = "add_photo"]]
           \/ req' = [req EXCEPT ![r] = Abort([q EXCEPT !.sel = "fail"])]
    /\ UNCHANGED << stores, uuidCtr, albumStores, sideVars >>

\* mutant of add_get_photo: the photo only has to exist
add_get_photo_any_owner(r) ==
    /\ req[r].pc = "add_photo"
    /\ LET q == req[r]
       IN  \/ req' = [req EXCEPT ![r] =
                 IF q.target \notin DOMAIN photos
                 THEN [q EXCEPT !.chk = "photo", !.pc = "add_own"]
                 ELSE [q EXCEPT !.pc = "add_dup"]]
           \/ req' = [req EXCEPT ![r] = Abort([q EXCEPT !.sel = "fail"])]
    /\ UNCHANGED << stores, uuidCtr, albumStores, sideVars >>

\* AlbumService.add_photo_to_album: the photo check
add_get_photo(r) ==
    /\ req[r].pc = "add_photo"
    /\ LET q == req[r]
       IN  \/ req' = [req EXCEPT ![r] =
                 IF q.target \notin DOMAIN photos
                       \/ photos[q.target].user_id # q.user
                 THEN [q EXCEPT !.chk = "photo", !.pc = "add_own"]
                 ELSE [q EXCEPT !.pc = "add_dup"]]
           \/ req' = [req EXCEPT ![r] = Abort([q EXCEPT !.sel = "fail"])]
    /\ UNCHANGED << stores, uuidCtr, albumStores, sideVars >>

\* the AlbumPhoto rows of a pair
PairRows(album_id, photo_id) ==
    {x \in DOMAIN album_photos : /\ album_photos[x].album_id = album_id
                                 /\ album_photos[x].photo_id = photo_id}

\* mutant of is_photo_in_album: the pair is never found
is_photo_in_album_never(r) ==
    /\ req[r].pc = "add_dup"
    /\ LET q == req[r]
       IN  \/ req' = [req EXCEPT ![r] = [q EXCEPT !.chk = "passed", !.pc = "add_ins"]]
           \/ req' = [req EXCEPT ![r] = Abort([q EXCEPT !.sel = "fail"])]
    /\ UNCHANGED << stores, uuidCtr, albumStores, sideVars >>

\* AlbumRepository.is_photo_in_album and the duplicate check of the service
is_photo_in_album(r) ==
    /\ req[r].pc = "add_dup"
    /\ LET q == req[r]
       IN  \/ req' = [req EXCEPT ![r] =
                 IF PairRows(q.album, q.target) # {}
                 THEN [q EXCEPT !.chk = "dup", !.pc = "add_own"]
                 ELSE [q EXCEPT !.chk = "passed", !.pc = "add_ins"]]
           \/ req' = [req EXCEPT ![r] = Abort([q EXCEPT !.sel = "fail"])]
    /\ UNCHANGED << stores, uuidCtr, albumStores, sideVars >>

\* the foreign keys of album_photos: both referenced rows exist
ForeignKeysHold(album_id, photo_id) ==
    album_id \in DOMAIN albums /\ photo_id \in DOMAIN photos

\* AlbumRepository.add_photo_to_album (add, commit, refresh); a foreign-key
\* violation raises IntegrityError, which no layer catches: the handler has no
\* try block, so every exception leaves it as a 500
add_photo_to_album(r) ==
    /\ req[r].pc = "add_ins"
    /\ LET q == req[r]
           id == uuid4
           row == [album_id |-> q.album, photo_id |-> q.target]
           inserted == [x \in DOMAIN album_photos \cup {id} |->
                           IF x = id THEN row ELSE album_photos[x]]
       IN  \/ /\ ForeignKeysHold(q.album, q.target)
              /\ album_photos' = inserted
              /\ uuidCtr' = uuidCtr + 1
              /\ \/ req' = [req EXCEPT ![r] =
                       Respond([q EXCEPT !.ins = "ok", !.apid = id],
                               HTTP_204_NO_CONTENT)]
                 \/ \* the commit went through, the refresh raised
                    req' = [req EXCEPT ![r] =
                       Abort([q EXCEPT !.ins = "refresh_fail", !.apid = id])]
           \/ /\ ~ForeignKeysHold(q.album, q.target)
              /\ UNCHANGED << album_photos, uuidCtr >>
              /\ req' = [req EXCEPT ![r] = Abort([q EXCEPT !.ins = "fk"])]
           \/ /\ UNCHANGED << album_photos, uuidCtr >>
              /\ req' = [req EXCEPT ![r] = Abort([q EXCEPT !.ins = "fail"])]
    /\ UNCHANGED << stores, albums, sideVars >>

\* the handler after a False result: AlbumService.verify_album_ownership
verify_album_ownership(r) ==
    /\ req[r].pc = "add_own"
    /\ LET q == req[r]
       IN  \/ req' = [req EXCEPT ![r] =
                 IF q.album \in DOMAIN albums /\ albums[q.album].user_id = q.user
                 THEN Respond(q, HTTP_400_BAD_REQUEST)
                 ELSE [q EXCEPT !.pc = "add_exists"]]
           \/ req' = [req EXCEPT ![r] = Abort([q EXCEPT !.sel = "fail"])]
    /\ UNCHANGED << stores, uuidCtr, albumStores, sideVars >>

\* the handler after a failed ownership re-check: AlbumService.album_exists
album_exists(r) ==
    /\ req[r].pc = "add_exists"
    /\ LET q == req[r]
       IN  \/ req' = [req EXCEPT ![r] =
                 IF q.album \in DOMAIN albums
                 THEN Respond(q, HTTP_403_FORBIDDEN)
                 ELSE Respond(q, HTTP_404_NOT_FOUND)]
           \/ req' = [req EXCEPT ![r] = Abort([q EXCEPT !.sel = "fail"])]
    /\ UNCHANGED << stores, uuidCtr, albumStores, sideVars >>

----------------------------------------------------------------------------
(* POST /auth/register, POST /users and PUT /users/{user_id} *)

\* the usernames and emails a body can hold: those of the registered users
\* and those of one more account
Usernames == {UsernameOf(n) : n \in 1..(NumUsers + 1)}
Emails == {EmailOf(n) : n \in 1..(NumUsers + 1)}

\* the ids of the rows with that email / username
ByEmail(email) == {id \in DOMAIN users : users[id].email = email}
ByUsername(username) == {id \in DOMAIN users : users[id].username = username}

\* unique=True of User.username and User.email: the table accepts the row
\* under that id
UniqueOk(id, row) ==
    /\ ByUsername(row.username) \subseteq {id}
    /\ ByEmail(row.email) \subseteq {id}

StartRegister(r) ==
    /\ Arrives(r)
    /\ \E n \in Usernames, e \in Emails :
         req' = [req EXCEPT ![r] =
                    [IdleReq EXCEPT !.kind = "register", !.username = n,
                                    !.email = e, !.pc = "reg_email"]]
    /\ UNCHANGED << stores, uuidCtr, albumStores, sideVars >>

\* create_user: exists_by_email; the ValueError becomes a 400, any other
\* exception a 500
exists_by_email(r) ==
    /\ req[r].pc = "reg_email"
    /\ LET q == req[r]
       IN  \/ req' = [req EXCEPT ![r] =
                 IF ByEmail(q.email) # {}
                 THEN Respond([q EXCEPT !.chk = "email"], HTTP_400_BAD_REQUEST)
                 ELSE [q EXCEPT !.tx = TRUE, !.pc = "reg_username"]]
           \/ req' = [req EXCEPT ![r] = Abort([q EXCEPT !.sel = "fail"])]
    /\ UNCHANGED << stores, uuidCtr, albumStores, sideVars >>

\* create_user: exists_by_username
exists_by_username(r) ==
    /\ req[r].pc = "reg_username"
    /\ LET q == req[r]
       IN  \/ req' = [req EXCEPT ![r] =
                 IF ByUsername(q.username) # {}
                 THEN Respond([q EXCEPT !.chk = "username"], HTTP_400_BAD_REQUEST)
                 ELSE [q EXCEPT !.pc = "reg_create"]]
           \/ req' = [req EXCEPT ![r] = Abort([q EXCEPT !.sel = "fail"])]
    /\ UNCHANGED << stores, uuidCtr, albumStores, sideVars >>

\* the next value of the autoincrement id
NextUserId == Cardinality(DOMAIN users) + 1

\* UserRepository.create: add, commit, refresh; the IntegrityError of a
\* unique constraint is no ValueError, so it leaves the handler as a 500
create_user(r) ==
    /\ req[r].pc = "reg_create"
    /\ LET q == req[r]
           id == NextUserId
           row == [username |-> q.username, email |-> q.email]
           inserted == [x \in DOMAIN users \cup {id} |->
                           IF x = id THEN row ELSE users[x]]
       IN  \/ /\ UniqueOk(id, row)
              /\ users' = inserted
              /\ req' = [req EXCEPT ![r] =
                    Respond([q EXCEPT !.ins = "ok", !.target = id],
                            HTTP_201_CREATED)]
           \/ \* the commit went through, the refresh raised
              /\ UniqueOk(id, row)
              /\ users' = inserted
              /\ req' = [req EXCEPT ![r] =
                    Abort([q EXCEPT !.ins = "refresh_fail", !.target = id])]
           \/ /\ ~UniqueOk(id, row)
              /\ users' = users
              /\ req' = [req EXCEPT ![r] = Abort([q EXCEPT !.ins = "integrity"])]
           \/ /\ users' = users
              /\ req' = [req EXCEPT ![r] = Abort([q EXCEPT !.ins = "fail"])]
    /\ UNCHANGED << stores, uuidCtr, albumStores, events, wk >>

\* the user ids a client can name: those of the rows, and an id of no row
UserTargets == DOMAIN users \cup {0}

StartUpdateUser(r) ==
    /\ Arrives(r)
    /\ \E t \in UserTargets, n \in Usernames \cup {""}, e \in Emails \cup {""} :
         req' = [req EXCEPT ![r] =
                    [IdleReq EXCEPT !.kind = "update_user", !.target = t,
                                    !.username = n, !.email = e,
                                    !.pc = "upd_get"]]
    /\ UNCHANGED << stores, uuidCtr, albumStores, sideVars >>

\* where update_user goes after a check: to the lookup by email, to the
\* lookup by username, or to the write
AfterUserCheck(q, step) ==
    IF step = "upd_get" /\ q.email # "" /\ q.email # q.existing.email
    THEN "upd_email"
    ELSE IF step \in {"upd_get", "upd_email"}
            /\ q.username # "" /\ q.username # q.existing.username
    THEN "upd_username"
    ELSE "upd_write"

\* update_user: get_by_id; None is the 404 of the router
update_get_by_id(r) ==
    /\ req[r].pc = "upd_get"
    /\ LET q == req[r]
       IN  \/ req' = [req EXCEPT ![r] =
                 IF q.target \notin DOMAIN users
                 THEN Respond([q EXCEPT !.sel = "none"], HTTP_404_NOT_FOUND)
                 ELSE LET found == [q EXCEPT !.sel = "found", !.tx = TRUE,
                                             !.existing = users[q.target]]
                      IN  [found EXCEPT !.pc = AfterUserCheck(found, "upd_get")]]
           \/ req' = [req EXCEPT ![r] = Abort([q EXCEPT !.sel = "fail"])]
    /\ UNCHANGED << stores, uuidCtr, albumStores, sideVars >>

\* update_user: get_by_email, ValueError when another user has the email
update_get_by_email(r) ==
    /\ req[r].pc = "upd_email"
    /\ LET q == req[r]
       IN  \/ req' = [req EXCEPT ![r] =
                 IF ByEmail(q.email) \ {q.target} # {}
                 THEN Respond([q EXCEPT !.chk = "email"], HTTP_400_BAD_REQUEST)
                 ELSE [q EXCEPT !.pc = AfterUserCheck(q, "upd_email")]]
           \/ req' = [req EXCEPT ![r] = Abort([q EXCEPT !.sel = "fail"])]
    /\ UNCHANGED << stores, uuidCtr, albumStores, sideVars >>

\* update_user: get_by_username, ValueError when another user has the name
update_get_by_username(r) ==
    /\ req[r].pc = "upd_username"
    /\ LET q == req[r]
       IN  \/ req' = [req EXCEPT ![r] =
                 IF ByUsername(q.username) \ {q.target} # {}
                 THEN Respond([q EXCEPT !.chk = "username"], HTTP_400_BAD_REQUEST)
                 ELSE [q EXCEPT !.pc = "upd_write"]]
           \/ req' = [req EXCEPT ![r] = Abort([q EXCEPT !.sel = "fail"])]
    /\ UNCHANGED << stores, uuidCtr, albumStores, sideVars >>

\* UserRepository.update_user: with no field nothing is written; else
\* execute + commit, where a unique constraint raises IntegrityError (a 500)
update_user(r) ==
    /\ req[r].pc = "upd_write"
    /\ LET q == req[r]
           row == [username |-> IF q.username # "" THEN q.username
                                ELSE users[q.target].username,
                   email |-> IF q.email # "" THEN q.email
                             ELSE users[q.target].email]
       IN  \/ /\ UniqueOk(q.target, row)
              /\ users' = [users EXCEPT ![q.target] = row]
              /\ req' = [req EXCEPT ![r] =
                    Respond([q EXCEPT !.upd = "ok"], HTTP_200_OK)]
           \/ \* the commit went through, the get_by_id after it raised
              /\ UniqueOk(q.target, row)
              /\ users' = [users EXCEPT ![q.target] = row]
              /\ req' = [req EXCEPT ![r] = Abort([q EXCEPT !.upd = "reread_fail"])]
           \/ /\ ~UniqueOk(q.target, row)
              /\ users' = users
              /\ req' = [req EXCEPT ![r] = Abort([q EXCEPT !.upd = "integrity"])]
           \/ /\ users' = users
              /\ req' = [req EXCEPT ![r] = Abort([q EXCEPT !.upd = "fail"])]
    /\ UNCHANGED << stores, uuidCtr, albumStores, events, wk >>

----------------------------------------------------------------------------
(* GET /albums/{album_id} *)

StartGetAlbum(r) ==
    /\ Arrives(r)
    /\ \E u \in Callers, a \in AlbumTargets :
         req' = [req EXCEPT ![r] =
                    [IdleReq EXCEPT !.kind = "get_album", !.user = u,
                                    !.album = a, !.pc = "get_album"]]
    /\ UNCHANGED << stores, uuidCtr, albumStores, sideVars >>

\* mutant of get_album: the owner of the album is not compared
get_album_any_owner(r) ==
    /\ req[r].pc = "get_album"
    /\ LET q == req[r]
       IN  \/ req' = [req EXCEPT ![r] =
                 IF q.album \notin DOMAIN albums
                 THEN Respond(q, HTTP_404_NOT_FOUND)
                 ELSE Respond([q EXCEPT !.sel = "found"], HTTP_200_OK)]
           \/ req' = [req EXCEPT ![r] = Abort([q EXCEPT !.sel = "fail"])]
    /\ UNCHANGED << stores, uuidCtr, albumStores, sideVars >>

\* get_album; an error of the SELECT leaves the handler as a 500
get_album(r) ==
    /\ req[r].pc = "get_album"
    /\ LET q == req[r]
       IN  \/ req' = [req EXCEPT ![r] =
                 IF q.album \notin DOMAIN albums
                 THEN Respond(q, HTTP_404_NOT_FOUND)
                 ELSE IF albums[q.album].user_id # q.user
                 THEN Respond(q, HTTP_403_FORBIDDEN)
                 ELSE Respond([q EXCEPT !.sel = "found"], HTTP_200_OK)]
           \/ req' = [req EXCEPT ![r] = Abort([q EXCEPT !.sel = "fail"])]
    /\ UNCHANGED << stores, uuidCtr, albumStores, sideVars >>

----------------------------------------------------------------------------
(* The thumbnail worker (functions/thumbnail_generator/main.py) *)

\* THUMBNAIL_SIZES, in the order the loop goes through them
THUMBNAIL_SIZES == << "small", "medium", "large" >>

\* data["bucket"]
BucketName == "bucket"

\* pat in s
Contains(s, pat) ==
    \E i \in 1..(Len(s) - Len(pat) + 1) : SubSeq(s, i, i + Len(pat) - 1) = pat

\* s.rsplit(sep, 1)
RSplit1(s, sep) ==
    IF sep \in Range(s)
    THEN LET i == CHOOSE j \in DOMAIN s :
                     s[j] = sep /\ \A k \in DOMAIN s : s[k] = sep => k <= j
         IN  << SubSeq(s, 1, i - 1), SubSeq(s, i + 1, Len(s)) >>
    ELSE << s >>

\* s.split(pat)[-1]: split cuts at the occurrences found from the left
RECURSIVE SplitLast(_, _)
SplitLast(s, pat) ==
    IF Contains(s, pat)
    THEN LET i == CHOOSE j \in 1..Len(s) :
                     /\ SubSeq(s, j, j + Len(pat) - 1) = pat
                     /\ \A k \in 1..(j - 1) : SubSeq(s, k, k + Len(pat) - 1) # pat
         IN  SplitLast(SubSeq(s, i + Len(pat), Len(s)), pat)
    ELSE s

ThumbnailsSegment == << "/", "thumbnails", "/" >>
PhotosSegment == << "/", "photos", "/" >>

\* mutant of get_thumbnail_path: the thumbnail is written next to the source
get_thumbnail_path_flat(original_path, size_name) ==
    LET parts == RSplit1(original_path, "/")
        directory == IF Len(parts) = 2 THEN parts[1] ELSE << >>
        filename == IF Len(parts) = 2 THEN parts[2] ELSE parts[1]
        name_parts == RSplit1(filename, ".")
        name == name_parts[1]
        ext == IF Len(name_parts) = 2 THEN name_parts[2] ELSE << "jpg" >>
    IN  directory \o << "/" >> \o name \o << "_" \o size_name, "." >> \o ext

\* mutant of get_thumbnail_path: the size suffix comes after the extension
get_thumbnail_path_suffix_last(original_path, size_name) ==
    LET parts == RSplit1(original_path, "/")
        directory == IF Len(parts) = 2 THEN parts[1] ELSE << >>
        filename == IF Len(parts) = 2 THEN parts[2] ELSE parts[1]
        name_parts == RSplit1(filename, ".")
        name == name_parts[1]
        ext == IF Len(name_parts) = 2 THEN name_parts[2] ELSE << "jpg" >>
    IN  directory \o ThumbnailsSegment
            \o name \o << "." >> \o ext \o << "_" \o size_name >>

\* get_thumbnail_path
get_thumbnail_path(original_path, size_name) ==
    LET parts == RSplit1(original_path, "/")
        directory == IF Len(parts) = 2 THEN parts[1] ELSE << >>
        filename == IF Len(parts) = 2 THEN parts[2] ELSE parts[1]
        name_parts == RSplit1(filename, ".")
        name == name_parts[1]
        ext == IF Len(name_parts) = 2 THEN name_parts[2] ELSE << "jpg" >>
    IN  IF directory # << >>
        THEN directory \o ThumbnailsSegment
                 \o name \o << "_" \o size_name, "." >> \o ext
        ELSE << "thumbnails", "/" >> \o name \o << "_" \o size_name, "." >> \o ext

\* mutant of ShouldSkip: only paths outside the photo namespace are skipped
ShouldSkip_namespace_only(file_path) == ~Contains(file_path, PhotosSegment)

\* generate_photo_thumbnail: the two checks that end the invocation at once
ShouldSkip(file_path) ==
    \/ Contains(file_path, ThumbnailsSegment)
    \/ ~Contains(file_path, PhotosSegment)

\* f"gs://{bucket_name}/{thumbnail_path}"
ThumbnailUrl(thumbnail_path) == << "gs://", BucketName, "/" >> \o thumbnail_path

\* the photo id the worker takes from the path: the file name after
\* "/photos/", without its extension
PhotoIdOfPath(file_path) == RSplit1(SplitLast(file_path, PhotosSegment), ".")[1]

\* generate_photo_thumbnail up to the try block: the event is delivered
generate_photo_thumbnail ==
    /\ wk.pc = "idle"
    /\ \E e \in events :
         /\ events' = events \ {e}
         /\ wk' = IF ShouldSkip(e.name)
                   THEN [IdleWorker EXCEPT !.file_path = e.name, !.by = e.by,
                                           !.out = "skipped"]
                   ELSE [IdleWorker EXCEPT !.file_path = e.name, !.by = e.by,
                                           !.pc = "download"]
    /\ UNCHANGED << stores, uuidCtr, req, albumStores, users >>

\* deliveries of one event after the first
MaxRedeliveries == 1

\* the trigger delivers at least once: the event of the invocation that
\* ended is delivered again, and generate_photo_thumbnail starts over with it
generate_photo_thumbnail_again ==
    /\ wk.pc = "idle"
    /\ wk.out # "none"
    /\ wk.redelivered < MaxRedeliveries
    /\ LET again == [IdleWorker EXCEPT !.file_path = wk.file_path, !.by = wk.by,
                                       !.redelivered = wk.redelivered + 1,
                                       !.prev_out = wk.out,
                                       !.prev_doc = wk.doc,
                                       !.prev_urls = wk.thumbnail_urls]
       IN  wk' = IF ShouldSkip(wk.file_path)
                 THEN [again EXCEPT !.out = "skipped"]
                 ELSE [again EXCEPT !.pc = "download"]
    /\ UNCHANGED << stores, uuidCtr, req, albumStores, users, events >>

\* blob.download_as_bytes(): a missing blob raises NotFound; the outer except
\* re-raises
download_as_bytes ==
    /\ wk.pc = "download"
    /\ \/ /\ wk.file_path \in blobs
          /\ wk' = [wk EXCEPT !.pc = "size", !.read = "ok"]
       \/ wk' = [wk EXCEPT !.pc = "idle", !.read = "fail", !.fail = "download",
                            !.out = "raised"]
    /\ UNCHANGED << stores, uuidCtr, req, albumStores, users, events >>

\* one turn of the loop over THUMBNAIL_SIZES: generate_thumbnail, then
\* thumbnail_blob.upload_from_string; there is no try inside the loop, so an
\* exception of either leaves the loop and reaches the outer except
upload_from_string ==
    /\ wk.pc = "size"
    /\ LET size_name == THUMBNAIL_SIZES[wk.i + 1]
           thumbnail_path == get_thumbnail_path(wk.file_path, size_name)
       IN  \/ /\ blobs' = blobs \cup {thumbnail_path}
              /\ events' = events \cup {Finalized(thumbnail_path, "worker")}
              /\ wk' = [wk EXCEPT !.i = wk.i + 1,
                           !.pc = IF wk.i + 1 = Len(THUMBNAIL_SIZES)
                                  THEN "patch" ELSE "size",
                           !.thumbnail_urls =
                               (size_name :> ThumbnailUrl(thumbnail_path))
                                   @@ wk.thumbnail_urls]
           \/ /\ UNCHANGED << blobs, events >>
              /\ \E f \in {"generate", "upload"} :
                    wk' = [wk EXCEPT !.pc = "idle", !.fail = f, !.out = "raised"]
    /\ UNCHANGED << photos, docs, uuidCtr, req, albumStores, users >>

\* mutant of PatchThumbnails: an update of a document that has thumbnails
\* clears the map
PatchThumbnails_clears(key, thumbnail_urls) ==
    IF "thumbnails" \in DOMAIN docs[key]
    THEN [docs EXCEPT ![key] = [thumbnails |-> << >>] @@ docs[key]]
    ELSE [docs EXCEPT ![key] = [thumbnails |-> thumbnail_urls] @@ docs[key]]

\* doc_ref.update({"thumbnails": ...}) (the server timestamp left out)
PatchThumbnails(key, thumbnail_urls) ==
    [docs EXCEPT ![key] = [thumbnails |-> thumbnail_urls] @@ docs[key]]

\* mutant of update_thumbnails: a missing document is created
update_thumbnails_upsert ==
    /\ wk.pc = "patch"
    /\ LET photo_id == PhotoIdOfPath(wk.file_path)
       IN  \/ /\ photo_id # << >>
              /\ docs' = IF photo_id \in DOMAIN docs
                          THEN PatchThumbnails(photo_id, wk.thumbnail_urls)
                          ELSE DocSet(photo_id, [thumbnails |-> wk.thumbnail_urls])
              /\ wk' = [wk EXCEPT !.pc = "idle", !.photo_id = photo_id,
                                  !.doc = IF photo_id \in DOMAIN docs
                                          THEN "patched" ELSE "missing",
                                  !.out = "ok"]
           \/ /\ docs' = docs
              /\ wk' = [wk EXCEPT !.pc = "idle", !.photo_id = photo_id,
                                  !.doc = "failed", !.out = "ok"]
    /\ UNCHANGED << photos, blobs, uuidCtr, req, albumStores, users, events >>

\* the photo id from the path, then the inner try: doc_ref.get(), and
\* doc_ref.update when the document exists; every exception is swallowed
update_thumbnails ==
    /\ wk.pc = "patch"
    /\ LET photo_id == PhotoIdOfPath(wk.file_path)
       IN  \/ /\ photo_id # << >>
              /\ photo_id \in DOMAIN docs
              /\ docs' = PatchThumbnails(photo_id, wk.thumbnail_urls)
              /\ wk' = [wk EXCEPT !.pc = "idle", !.photo_id = photo_id,
                                  !.doc = "patched", !.out = "ok"]
           \/ /\ photo_id = << >> \/ photo_id \notin DOMAIN docs
              /\ docs' = docs
              /\ wk' = [wk EXCEPT !.pc = "idle", !.photo_id = photo_id,
                                  !.doc = "missing", !.out = "ok"]
           \/ /\ photo_id # << >>
              /\ docs' = docs
              /\ wk' = [wk EXCEPT !.pc = "idle", !.photo_id = photo_id,
                                  !.doc = "failed", !.out = "ok"]
    /\ UNCHANGED << photos, blobs, uuidCtr, req, albumStores, users, events >>

----------------------------------------------------------------------------
(* The photo API *)

Init ==
    /\ photos = << >>
    /\ blobs = {}
    /\ docs = << >>
    /\ uuidCtr = 0
    /\ req = [r \in Slots |-> IdleReq]
    /\ albums = << >>
    /\ album_photos = << >>
    /\ users = RegisteredUsers
    /\ events = {}
    /\ wk = IdleWorker

Next ==
    \E r \in Slots :
        \/ StartUpload(r)
        \/ StartGenerateText(r)
        \/ StartGenerateReference(r)
        \/ StartGet(r)
        \/ StartDelete(r)
        \/ upload_file(r)
        \/ create_photo(r)
        \/ save_photo_metadata(r)
        \/ update_photo_get(r)
        \/ update_photo_write(r)
        \/ update_photo_metadata(r)
        \/ generate_image_from_text(r)
        \/ generate_image_from_text_and_image(r)
        \/ get_photo(r)
        \/ delete_photo_check(r)
        \/ delete_file(r)
        \/ delete_photo_metadata(r)
        \/ delete_photo_get(r)
        \/ delete_photo_write(r)

Spec == Init /\ [][Next]_vars

----------------------------------------------------------------------------
(* The library of photos and albums: deletes and album associations over    *)
(* the photos and albums that earlier uploads and album creations left      *)

\* the uploaded photo of user u: blob name uuid, row id, and its album's id
LibBlobUuid(u) == 2 * u - 1
LibPhotoId(u) == 2 * u
LibAlbumId(u) == 2 * NumUsers + u

\* the upload request that created the photo of user u, as it ended
LibUpload(u) ==
    [IdleReq EXCEPT !.kind = "upload", !.user = u,
                    !.content_type = "image/jpeg",
                    !.file_size = MAX_UPLOAD_SIZE,
                    !.filename = FilenameOrDefault(NoFilename),
                    !.storage_path =
                        GenerateUniqueFilename(FilenameOrDefault(NoFilename),
                                               u, LibBlobUuid(u)),
                    !.pid = LibPhotoId(u)]

\* every user has one processed photo (row, blob, document) and one album
LibraryInit ==
    /\ photos = [id \in {LibPhotoId(u) : u \in Users} |->
                    LET u == CHOOSE v \in Users : LibPhotoId(v) = id
                    IN  [user_id |-> u,
                         storage_path |-> LibUpload(u).storage_path,
                         status |-> PROCESSED]]
    /\ blobs = {LibUpload(u).storage_path : u \in Users}
    /\ docs = [k \in {UuidStr(LibPhotoId(u)) : u \in Users} |->
                  LET u == CHOOSE v \in Users : UuidStr(LibPhotoId(v)) = k
                  IN  [Metadata(LibUpload(u)) EXCEPT !.status = PROCESSED]]
    /\ albums = [id \in {LibAlbumId(u) : u \in Users} |->
                    [user_id |-> CHOOSE v \in Users : LibAlbumId(v) = id]]
    /\ album_photos = << >>
    /\ users = RegisteredUsers
    /\ events = {Finalized(LibUpload(u).storage_path, "upload") : u \in Users}
    /\ wk = IdleWorker
    /\ uuidCtr = 3 * NumUsers
    /\ req = [r \in Slots |-> IdleReq]

LibraryNext ==
    \E r \in Slots :
        \/ StartDelete(r)
        \/ delete_photo_check(r)
        \/ delete_file(r)
        \/ delete_photo_metadata(r)
        \/ delete_photo_get(r)
        \/ delete_photo_write(r)
        \/ StartAdd(r)
        \/ add_get_album(r)
        \/ add_get_photo(r)
        \/ is_photo_in_album(r)
        \/ add_photo_to_album(r)
        \/ verify_album_ownership(r)
        \/ album_exists(r)

LibrarySpec == LibraryInit /\ [][LibraryNext]_vars

----------------------------------------------------------------------------
(* The thumbnail worker alone, on the finalize event of an arbitrary object *)

\* number of pieces of the longest object name
MaxPathLen == 6

\* the pieces object names are made of: the separators, the two directory
\* names the worker looks for, and the id of a photo as a file name
PathPieces == {"/", ".", "photos", "thumbnails", ToString(LibPhotoId(1))}

ObjectNames == UNION {[1..n -> PathPieces] : n \in 1..MaxPathLen}

\* the document of the upload of user u, after the flow patched its status
LibDoc(u, status) == [Metadata(LibUpload(u)) EXCEPT !.status = status]

\* the bucket holds an object of any name, written by something else than
\* the API, next to the photos of the users; its finalize event is pending
PathInit ==
    /\ photos = [id \in {LibPhotoId(u) : u \in Users} |->
                    LET u == CHOOSE v \in Users : LibPhotoId(v) = id
                    IN  [user_id |-> u,
                         storage_path |-> LibUpload(u).storage_path,
                         status |-> PROCESSED]]
    /\ docs = [k \in {UuidStr(LibPhotoId(u)) : u \in Users} |->
                  LET u == CHOOSE v \in Users : UuidStr(LibPhotoId(v)) = k
                  IN  LibDoc(u, PROCESSED)]
    /\ \E name \in ObjectNames :
          /\ blobs = {LibUpload(u).storage_path : u \in Users} \cup {name}
          /\ events = {Finalized(name, "other")}
    /\ albums = << >>
    /\ album_photos = << >>
    /\ users = RegisteredUsers
    /\ wk = IdleWorker
    /\ uuidCtr = 2 * NumUsers
    /\ req = [r \in Slots |-> IdleReq]

PathNext ==
    \/ generate_photo_thumbnail
    \/ download_as_bytes
    \/ upload_from_string
    \/ update_thumbnails

PathSpec == PathInit /\ [][PathNext]_vars

----------------------------------------------------------------------------
(* The thumbnail worker next to the reads of the API *)

\* the states a metadata document can be in when the event of an upload is
\* delivered: not written, written as uploading, patched to processed
DocStates == {"absent", UPLOADING, PROCESSED}

\* every user has one processed photo, and the finalize event of the photo
\* of the first user is the one pending; the document of each photo is in any
\* of the states the upload flow leaves
WorkerInit ==
    /\ photos = [id \in {LibPhotoId(u) : u \in Users} |->
                    LET u == CHOOSE v \in Users : LibPhotoId(v) = id
                    IN  [user_id |-> u,
                         storage_path |-> LibUpload(u).storage_path,
                         status |-> PROCESSED]]
    /\ blobs = {LibUpload(u).storage_path : u \in Users}
    /\ \E st \in [Users -> DocStates] :
          docs = [k \in {UuidStr(LibPhotoId(u)) : u \in {v \in Users : st[v] # "absent"}} |->
                     LET u == CHOOSE v \in Users : UuidStr(LibPhotoId(v)) = k
                     IN  LibDoc(u, st[u])]
    /\ albums = << >>
    /\ album_photos = << >>
    /\ users = RegisteredUsers
    /\ events = {Finalized(LibUpload(1).storage_path, "upload")}
    /\ wk = IdleWorker
    /\ uuidCtr = 2 * NumUsers
    /\ req = [r \in Slots |-> IdleReq]

\* the worker next to GET /photos/{photo_id}/thumbnails
WorkerNext ==
    \/ generate_photo_thumbnail
    \/ download_as_bytes
    \/ upload_from_string
    \/ update_thumbnails
    \/ \E r \in Slots :
          \/ StartThumbnails(r)
          \/ thumbnails_get_photo_by_id(r)
          \/ thumbnails_get_photo_metadata(r)

WorkerSpec == WorkerInit /\ [][WorkerNext]_vars

\* the worker with events that are delivered more than once
RedeliveryNext ==
    \/ generate_photo_thumbnail
    \/ generate_photo_thumbnail_again
    \/ download_as_bytes
    \/ upload_from_string
    \/ update_thumbnails

\* the pending event is the one of an upload through the API, or the one of
\* an object of any name
RedeliveryInit == WorkerInit \/ PathInit

RedeliverySpec == RedeliveryInit /\ [][RedeliveryNext]_vars

\* the worker next to GET /photos/{photo_id} and GET /photos
ReadNext ==
    \/ generate_photo_thumbnail
    \/ download_as_bytes
    \/ upload_from_string
    \/ update_thumbnails
    \/ \E r \in Slots :
          \/ StartGet(r)
          \/ get_photo(r)
          \/ StartList(r)
          \/ get_my_photos(r)

ReadSpec == WorkerInit /\ [][ReadNext]_vars

----------------------------------------------------------------------------
(* The single-record operations on a populated library *)

RecordNext ==
    \E r \in Slots :
        \/ StartGet(r)
        \/ get_photo(r)
        \/ StartCreate(r)
        \/ create_photo_record(r)
        \/ StartPatch(r)
        \/ patch_verify_photo_ownership(r)
        \/ patch_photo_exists(r)
        \/ patch_get_by_id(r)
        \/ patch_update_photo(r)
        \/ StartGetAlbum(r)
        \/ get_album(r)
        \/ StartDelete(r)
        \/ delete_photo_check(r)
        \/ delete_file(r)
        \/ delete_photo_metadata(r)
        \/ delete_photo_get(r)
        \/ delete_photo_write(r)

RecordSpec == LibraryInit /\ [][RecordNext]_vars

----------------------------------------------------------------------------
(* The requests on one photo and the photo list, by owners and by others *)

AccessNext ==
    \E r \in Slots :
        \/ StartGet(r)
        \/ get_photo(r)
        \/ StartUrl(r)
        \/ url_get_photo_by_id(r)
        \/ get_signed_url(r)
        \/ StartMetadata(r)
        \/ metadata_get_photo_by_id(r)
        \/ metadata_get_photo_metadata(r)
        \/ StartThumbnails(r)
        \/ thumbnails_get_photo_by_id(r)
        \/ thumbnails_get_photo_metadata(r)
        \/ StartPatch(r)
        \/ patch_verify_photo_ownership(r)
        \/ patch_photo_exists(r)
        \/ patch_get_by_id(r)
        \/ patch_update_photo(r)
        \/ StartDelete(r)
        \/ delete_photo_check(r)
        \/ delete_file(r)
        \/ delete_photo_metadata(r)
        \/ delete_photo_get(r)
        \/ delete_photo_write(r)
        \/ StartList(r)
        \/ get_my_photos(r)

AccessSpec == LibraryInit /\ [][AccessNext]_vars

----------------------------------------------------------------------------
(* The user accounts *)

UserNext ==
    \E r \in Slots :
        \/ StartRegister(r)
        \/ exists_by_email(r)
        \/ exists_by_username(r)
        \/ create_user(r)
        \/ StartUpdateUser(r)
        \/ update_get_by_id(r)
        \/ update_get_by_email(r)
        \/ update_get_by_username(r)
        \/ update_user(r)

UserSpec == Init /\ [][UserNext]_vars

----------------------------------------------------------------------------
(* Properties of the upload and generation flows *)

IsUpload(q) == q.kind = "upload"
IsGenerate(q) == q.kind \in {"gen_text", "gen_ref"}
Done(q) == q.pc = "done"

\* no other request writes the photo: no delete request names it
NoOtherWriter(id) == \A d \in Slots : req[d].kind = "delete" => req[d].target # id

\* the status-update write of step 5 was committed
StatusUpdateCommitted(q) == q.upd \in {"ok", "reread_fail"}

\* step 5 (mark_as_processed) raised before the update was committed
StatusUpdateFailed(q) == q.sel = "fail" \/ q.upd = "fail"

\* C1: the row an upload creates is processed if and only if the object-store
\* put and the status-update write of that upload both succeeded; an upload
\* whose put failed has no row, an upload whose status update failed has a row
\* that is not processed (as long as no other request writes the row).
C1_ProcessedIffPutAndUpdate ==
    \A r \in Slots :
        LET q == req[r]
        IN  IsUpload(q) =>
              /\ q.put # "ok" => q.pid = 0
              /\ (q.pid # 0 /\ NoOtherWriter(q.pid)) =>
                    /\ q.pid \in DOMAIN photos
                    /\ photos[q.pid].status = PROCESSED
                          <=> (q.put = "ok" /\ StatusUpdateCommitted(q))

C1_Witness ==
    /\ \E r \in Slots :
          /\ IsUpload(req[r]) /\ Done(req[r]) /\ req[r].upd = "ok"
          /\ NoOtherWriter(req[r].pid)
          /\ photos[req[r].pid].status = PROCESSED
    /\ \E r \in Slots :
          /\ IsUpload(req[r]) /\ Done(req[r]) /\ req[r].upd = "fail"
          /\ NoOtherWriter(req[r].pid)
          /\ photos[req[r].pid].status = UPLOADING

\* C2: an upload that ended in an error leaves no stored blob that no Photo
\* row references, and the row it leaves is in status failed or uploading.
C2_NoOrphanBlobAfterFailedUpload ==
    \A r \in Slots :
        LET q == req[r]
        IN  (IsUpload(q) /\ Done(q) /\ q.code = HTTP_500_INTERNAL_SERVER_ERROR
                /\ q.storage_path \in blobs) =>
              \E id \in DOMAIN photos :
                  /\ photos[id].storage_path = q.storage_path
                  /\ photos[id].status \in {FAILED, UPLOADING}

\* C3: in the upload flow the put precedes the insert, and a failed put ends
\* the request with a 500 without a row created by it.
C3_PutBeforeInsert ==
    /\ \A r \in Slots :
          LET q == req[r]
          IN  IsUpload(q) =>
                /\ q.ins # "none" => q.put = "ok"
                /\ q.put = "fail" =>
                      /\ Done(q) /\ q.code = HTTP_500_INTERNAL_SERVER_ERROR
                      /\ q.ins = "none" /\ q.pid = 0
    /\ \A id \in DOMAIN photos :
          \E r \in Slots : req[r].pid = id /\ req[r].put = "ok"
                              /\ photos[id].storage_path = req[r].storage_path

C3_Witness ==
    /\ \E r \in Slots : IsUpload(req[r]) /\ req[r].put = "fail" /\ Done(req[r])
    /\ \E r \in Slots : IsUpload(req[r]) /\ req[r].ins = "ok"

\* C4: an upload with a content type outside the allow-list, or larger than
\* the ceiling, is answered 400 in the step it arrives in, with no store call
\* and the three stores unchanged; a size equal to the ceiling is accepted.
C4_RejectedBeforeAnyStoreCall ==
    [][ \A r \in Slots :
          (req[r].pc = "idle" /\ IsUpload(req'[r])) =>
             LET q == req'[r]
             IN  IF q.content_type \notin ALLOWED_IMAGE_TYPES
                    \/ q.file_size > MAX_UPLOAD_SIZE
                 THEN /\ Done(q) /\ q.code = HTTP_400_BAD_REQUEST
                      /\ q.put = "none" /\ q.ins = "none" /\ q.meta = "none"
                      /\ UNCHANGED stores
                 ELSE /\ q.pc = "put" /\ q.code = 0
                      /\ UNCHANGED stores ]_vars

C4_Witness ==
    /\ \E r \in Slots :
          /\ IsUpload(req[r]) /\ req[r].code = HTTP_400_BAD_REQUEST
          /\ req[r].content_type \in ALLOWED_IMAGE_TYPES
          /\ req[r].file_size = MAX_UPLOAD_SIZE + 1
    /\ \E r \in Slots :
          /\ IsUpload(req[r]) /\ req[r].put = "ok"
          /\ req[r].file_size = MAX_UPLOAD_SIZE

\* C5: a document-store failure in step 4 of an upload does not end the
\* request: the flow goes on to the status update, and when that succeeds the
\* row is processed and the request answers 201.
C5_MetadataFailureNotPropagated ==
    \A r \in Slots :
        LET q == req[r]
        IN  (IsUpload(q) /\ q.meta = "fail") =>
              /\ q.pc # "meta"
              /\ Done(q) => q.sel # "none"
              /\ (Done(q) /\ q.code = HTTP_500_INTERNAL_SERVER_ERROR) =>
                    (StatusUpdateFailed(q) \/ q.upd = "reread_fail")
              /\ (Done(q) /\ q.upd = "ok") =>
                    /\ q.code = HTTP_201_CREATED
                    /\ NoOtherWriter(q.pid) => photos[q.pid].status = PROCESSED

C5_Witness ==
    \E r \in Slots :
        /\ IsUpload(req[r]) /\ req[r].meta = "fail" /\ req[r].upd = "ok"
        /\ req[r].code = HTTP_201_CREATED
        /\ req[r].pid \in DOMAIN photos
        /\ photos[req[r].pid].status = PROCESSED

\* C6: when step 5 of an upload fails, the request answers 500 and the row
\* stays uploading with its blob still stored (as long as no other request
\* writes the photo).
C6_StatusUpdateFailureLeavesUploading ==
    \A r \in Slots :
        LET q == req[r]
        IN  (IsUpload(q) /\ StatusUpdateFailed(q)) =>
              /\ Done(q) /\ q.code = HTTP_500_INTERNAL_SERVER_ERROR
              /\ NoOtherWriter(q.pid) =>
                    /\ q.pid \in DOMAIN photos
                    /\ photos[q.pid].status = UPLOADING
                    /\ photos[q.pid].storage_path = q.storage_path
                    /\ q.storage_path \in blobs

C6_Witness ==
    \E r \in Slots :
        /\ IsUpload(req[r]) /\ req[r].upd = "fail" /\ NoOtherWriter(req[r].pid)
        /\ photos[req[r].pid].status = UPLOADING
        /\ req[r].storage_path \in blobs

\* an upload / generation request ended in an error after its row was inserted
FailedAfterInsert(q) ==
    /\ IsUpload(q) \/ IsGenerate(q)
    /\ Done(q) /\ q.code = HTTP_500_INTERNAL_SERVER_ERROR
    /\ q.pid # 0

\* C7 (as claimed): a flow that hits a terminal error after its row was
\* inserted leaves that row in status failed.
C7_FailedAfterTerminalError ==
    \A r \in Slots :
        (FailedAfterInsert(req[r]) /\ NoOtherWriter(req[r].pid)) =>
            photos[req[r].pid].status = FAILED

\* C7 (amended): such a row keeps the status it had when the error occurred:
\* uploading, or processed when the error came after the status update was
\* committed; it is never failed.
C7_RowKeepsStatusAfterTerminalError ==
    \A r \in Slots :
        LET q == req[r]
        IN  (FailedAfterInsert(q) /\ NoOtherWriter(q.pid)) =>
              /\ q.pid \in DOMAIN photos
              /\ photos[q.pid].status =
                    IF q.upd = "reread_fail" THEN PROCESSED ELSE UPLOADING

C7_Witness ==
    /\ \E r \in Slots :
          /\ IsUpload(req[r]) /\ FailedAfterInsert(req[r])
          /\ NoOtherWriter(req[r].pid)
          /\ photos[req[r].pid].status = UPLOADING
    /\ \E r \in Slots :
          /\ IsGenerate(req[r]) /\ FailedAfterInsert(req[r])
          /\ NoOtherWriter(req[r].pid)
          /\ photos[req[r].pid].status = UPLOADING

\* an upload in which every store call succeeded
FullySuccessful(q) ==
    /\ IsUpload(q) /\ Done(q) /\ q.code = HTTP_201_CREATED
    /\ q.put = "ok" /\ q.ins = "ok" /\ q.meta = "ok" /\ q.upd = "ok"

\* C8: a fully successful upload inserts its row as uploading, its steps
\* change the status of a row only from uploading to processed, it leaves
\* exactly one row for its blob, and a GET of the photo by the owner after it
\* answers with status processed.
C8_SuccessfulUploadThenGet ==
    [][ \A r \in Slots :
          LET q == req[r]
              n == req'[r]
          IN  /\ (IsUpload(n) /\ n # q) =>
                   \A id \in DOMAIN photos' :
                      /\ id \notin DOMAIN photos =>
                            id = n.pid /\ photos'[id].status = UPLOADING
                      /\ (id \in DOMAIN photos
                            /\ photos'[id].status # photos[id].status) =>
                            /\ id = q.pid
                            /\ photos[id].status = UPLOADING
                            /\ photos'[id].status = PROCESSED
              /\ (FullySuccessful(n)
                    /\ \A d \in Slots :
                          req'[d].kind = "delete" => req'[d].target # n.pid) =>
                   /\ Cardinality({id \in DOMAIN photos' :
                        photos'[id].storage_path = n.storage_path}) = 1
                   /\ photos'[n.pid].status = PROCESSED
              /\ (FullySuccessful(q) /\ NoOtherWriter(q.pid)) =>
                   \A g \in Slots :
                      (req[g].pc = "get" /\ req'[g].pc = "done"
                         /\ req[g].target = q.pid /\ req[g].user = q.user
                         /\ req'[g].sel # "fail") =>
                           /\ req'[g].code = HTTP_200_OK
                           /\ req'[g].resp = PROCESSED ]_vars

C8_Witness ==
    \E r, g \in Slots :
        /\ FullySuccessful(req[r])
        /\ req[g].kind = "get" /\ Done(req[g])
        /\ req[g].target = req[r].pid /\ req[g].user = req[r].user
        /\ req[g].code = HTTP_200_OK /\ req[g].resp = PROCESSED

\* C9: there are ten supported ratios, and a generation request of either
\* variant with another ratio is answered 400 in the step it arrives in: the
\* AI adapter is not called and no blob, row or document is created.
C9_UnsupportedRatioRejected ==
    /\ Cardinality(Range(get_supported_aspect_ratios)) = 10
    /\ \A r \in Slots :
          LET q == req[r]
          IN  (IsGenerate(q)
                 /\ q.aspect_ratio \notin Range(get_supported_aspect_ratios)) =>
                /\ Done(q) /\ q.code = HTTP_400_BAD_REQUEST
                /\ q.ai = "none" /\ q.put = "none" /\ q.ins = "none"
                /\ q.meta = "none"
                /\ q.storage_path = NoPath /\ q.pid = 0

C9_Witness ==
    /\ \E r \in Slots :
          /\ req[r].kind = "gen_text" /\ req[r].aspect_ratio = "2:1"
          /\ req[r].code = HTTP_400_BAD_REQUEST
    /\ \E r \in Slots :
          /\ req[r].kind = "gen_ref" /\ req[r].aspect_ratio = "2:1"
          /\ req[r].code = HTTP_400_BAD_REQUEST

\* C10: when the AI adapter call of a generation request raises, the request
\* answers 500 and has stored no blob, inserted no row and written no document.
C10_GenerationFailureCreatesNothing ==
    \A r \in Slots :
        LET q == req[r]
        IN  (IsGenerate(q) /\ q.ai \in {"fail", "type_error"}) =>
              /\ Done(q) /\ q.code = HTTP_500_INTERNAL_SERVER_ERROR
              /\ q.put = "none" /\ q.ins = "none" /\ q.meta = "none"
              /\ q.storage_path = NoPath /\ q.pid = 0
              /\ q.storage_path \notin blobs
              /\ UuidStr(q.pid) \notin DOMAIN docs

C10_Witness ==
    /\ \E r \in Slots : req[r].kind = "gen_text" /\ req[r].ai = "fail"
    /\ \E r \in Slots : req[r].kind = "gen_ref" /\ req[r].ai = "type_error"

----------------------------------------------------------------------------
(* Properties of the AI-generation success path and of the delete flow *)

\* no store call of an upload / generation request raised
NoStoreFailure(q) ==
    /\ q.put # "fail" /\ q.ins \notin {"fail", "refresh_fail"}
    /\ q.meta # "fail" /\ q.sel # "fail"
    /\ q.upd \notin {"fail", "reread_fail"}

\* C11: a text-only generation request with a supported ratio in which the AI
\* adapter and every store call succeeded answers 201, has created exactly
\* one Photo row, that row is processed, and the document keyed by its id has
\* ai_generated = true with the prompt, the ratio and the model name (as long
\* as no other request writes the photo).
C11_TextGenerationSucceeds ==
    \A r \in Slots :
        LET q == req[r]
            key == UuidStr(q.pid)
        IN  (q.kind = "gen_text" /\ Done(q) /\ q.ai = "ok" /\ NoStoreFailure(q)
               /\ NoOtherWriter(q.pid)) =>
              /\ q.code = HTTP_201_CREATED
              /\ q.aspect_ratio \in Range(get_supported_aspect_ratios)
              /\ q.pid \in DOMAIN photos
              /\ photos[q.pid].status = PROCESSED
              /\ Cardinality({id \in DOMAIN photos :
                    photos[id].storage_path = q.storage_path}) = 1
              /\ key \in DOMAIN docs
              /\ docs[key].ai_generated = TRUE
              /\ docs[key].ai_prompt = q.prompt
              /\ docs[key].ai_aspect_ratio = q.aspect_ratio
              /\ docs[key].ai_model = GEMINI_IMAGE_MODEL

C11_Witness ==
    \E r \in Slots :
        /\ req[r].kind = "gen_text" /\ Done(req[r]) /\ req[r].upd = "ok"
        /\ req[r].meta = "ok" /\ req[r].code = HTTP_201_CREATED
        /\ NoOtherWriter(req[r].pid)
        /\ photos[req[r].pid].status = PROCESSED
        /\ docs[UuidStr(req[r].pid)].ai_generated = TRUE

\* C12: a reference-image generation request that passed both validations and
\* in which neither the AI model nor a store call failed answers 201, has
\* created one Photo row that is processed, and a document with the
\* provenance fields and the reference file name.
C12_ReferenceGenerationSucceeds ==
    \A r \in Slots :
        LET q == req[r]
            key == UuidStr(q.pid)
        IN  (q.kind = "gen_ref" /\ Done(q) /\ q.code # HTTP_400_BAD_REQUEST
               /\ q.ai # "fail" /\ NoStoreFailure(q)
               /\ NoOtherWriter(q.pid)) =>
              /\ q.code = HTTP_201_CREATED
              /\ q.pid \in DOMAIN photos
              /\ photos[q.pid].status = PROCESSED
              /\ key \in DOMAIN docs
              /\ docs[key].ai_generated = TRUE
              /\ docs[key].ai_reference_image = q.reference

IsDelete(q) == q.kind = "delete"

\* C13: a delete by the owner runs blob delete, then document delete, then
\* row delete; a failed blob delete (a missing blob included) or a failed
\* document delete is not propagated, and the request goes on to delete the
\* row: only the row steps can end it with a 500.
C13_DeleteOrderAndBestEffort ==
    \A r \in Slots :
        LET q == req[r]
        IN  IsDelete(q) =>
              /\ q.put # "none" => q.sel = "found"
              /\ q.meta # "none" => q.put # "none"
              /\ q.del # "none" => q.meta # "none"
              /\ q.put = "fail" => q.pc \in {"del_doc", "del_row_sel", "del_row", "done"}
              /\ q.meta = "fail" => q.pc \in {"del_row_sel", "del_row", "done"}
              /\ (Done(q) /\ q.sel = "found") => q.del # "none"
              /\ (Done(q) /\ q.code = HTTP_500_INTERNAL_SERVER_ERROR) =>
                    (q.sel = "fail" \/ q.del = "fail")
              /\ q.del = "deleted" =>
                    /\ q.code = HTTP_204_NO_CONTENT
                    /\ q.target \notin DOMAIN photos

C13_Witness ==
    /\ \E r \in Slots :
          /\ IsDelete(req[r]) /\ req[r].put = "fail" /\ req[r].meta = "fail"
          /\ req[r].storage_path \in blobs
          /\ req[r].del = "deleted" /\ req[r].target \notin DOMAIN photos
    /\ \E r \in Slots :
          /\ IsDelete(req[r]) /\ req[r].put = "deleted" /\ req[r].meta = "ok"
          /\ req[r].del = "deleted"

\* C14: in the delete flow a failed row delete is answered 500 and is the only
\* step failure that is; the request answers 204 only if its own DELETE
\* removed the row.
C14_SuccessOnlyIfRowRemoved ==
    \A r \in Slots :
        LET q == req[r]
        IN  (IsDelete(q) /\ Done(q)) =>
              /\ q.del = "fail" => q.code = HTTP_500_INTERNAL_SERVER_ERROR
              /\ (q.code = HTTP_500_INTERNAL_SERVER_ERROR /\ q.sel = "found") =>
                    q.del = "fail"
              /\ q.code = HTTP_204_NO_CONTENT => q.del = "deleted"

\* C15: once a delete has removed the row of a photo, the ownership check of
\* another delete of the same id answers 404 (500 when its SELECT raises) and
\* the request ends there with no store changed and no blob, document or row
\* delete issued; no delete ends in an error because the blob or the document
\* is missing.
C15_SecondDeleteNotFound ==
    [][ \A r \in Slots :
          LET q == req[r]
              n == req'[r]
          IN  /\ (IsDelete(q) /\ q.pc = "del_sel" /\ n # q
                    /\ \E d \in Slots : /\ IsDelete(req[d])
                                         /\ req[d].del = "deleted"
                                         /\ req[d].target = q.target) =>
                   /\ Done(n)
                   /\ n.code = IF n.sel = "fail"
                               THEN HTTP_500_INTERNAL_SERVER_ERROR
                               ELSE HTTP_404_NOT_FOUND
                   /\ n.put = "none" /\ n.meta = "none" /\ n.del = "none"
                   /\ UNCHANGED << stores, albumStores >>
              /\ (IsDelete(n) /\ n.code = HTTP_500_INTERNAL_SERVER_ERROR) =>
                   (n.sel = "fail" \/ n.del = "fail") ]_vars

C15_Witness ==
    \E r, d \in Slots :
        /\ IsDelete(req[d]) /\ req[d].del = "deleted"
        /\ req[d].put = "deleted" /\ req[d].meta = "ok"
        /\ IsDelete(req[r]) /\ req[r].target = req[d].target
        /\ req[r].user = req[d].user
        /\ Done(req[r]) /\ req[r].code = HTTP_404_NOT_FOUND

----------------------------------------------------------------------------
(* Properties of the album association *)

IsAdd(q) == q.kind = "add"

SamePair(q, p) == q.album = p.album /\ q.target = p.target

\* C16: when add_photo_to_album has succeeded for a pair, the duplicate check
\* of a later call for the same pair finds the row, that call inserts nothing
\* and is answered 400, and the pair has one AlbumPhoto row afterwards (as
\* long as no request deletes the photo).
C16_SecondAddFails ==
    [][ \A r \in Slots :
          LET q == req[r]
              n == req'[r]
          IN  /\ (IsAdd(q) /\ q.pc = "add_dup" /\ n # q
                    /\ NoOtherWriter(q.target)
                    /\ \E d \in Slots \ {r} :
                          /\ IsAdd(req[d]) /\ SamePair(req[d], q)
                          /\ req[d].ins = "ok"
                          /\ req[d].code = HTTP_204_NO_CONTENT) =>
                   /\ n.chk = "dup" \/ n.sel = "fail"
                   /\ n.pc # "add_ins"
                   /\ UNCHANGED album_photos
              /\ (IsAdd(n) /\ Done(n) /\ n.chk = "dup" /\ n.sel # "fail") =>
                   /\ n.code = HTTP_400_BAD_REQUEST
                   /\ n.apid = 0
              /\ (IsAdd(n) /\ n.ins = "ok"
                    /\ \A d \in Slots :
                          /\ req'[d].kind = "delete" => req'[d].target # n.target
                          /\ (d # r /\ IsAdd(req'[d]) /\ SamePair(req'[d], n)) =>
                                req'[d].chk \in {"none", "dup"}) =>
                   Cardinality({x \in DOMAIN album_photos' :
                       /\ album_photos'[x].album_id = n.album
                       /\ album_photos'[x].photo_id = n.target}) = 1 ]_vars

C16_Witness ==
    \E r, d \in Slots :
        /\ IsAdd(req[d]) /\ req[d].ins = "ok"
        /\ req[d].code = HTTP_204_NO_CONTENT
        /\ IsAdd(req[r]) /\ SamePair(req[r], req[d])
        /\ req[r].user = req[d].user
        /\ req[r].chk = "dup" /\ req[r].code = HTTP_400_BAD_REQUEST
        /\ Cardinality(PairRows(req[d].album, req[d].target)) = 1

\* C17: the number of AlbumPhoto rows of a pair (album_id, photo_id) never
\* exceeds 1, whatever the interleaving of the requests.
C17_AtMostOneRowPerPair ==
    \A x, y \in DOMAIN album_photos :
        album_photos[x] = album_photos[y] => x = y

\* add_photo_to_album returned False to the handler
AddRefused(q) ==
    /\ IsAdd(q) /\ Done(q)
    /\ q.chk \in {"album", "photo", "dup"}
    /\ q.sel # "fail"

\* C18: two refused add requests are answered with the same status, whichever
\* check refused them and whether the resource is missing or another user's.
C18_UniformRefusal ==
    \A r, d \in Slots :
        (AddRefused(req[r]) /\ AddRefused(req[d])) => req[r].code = req[d].code

\* C19: every AlbumPhoto row links an album and a photo of one user and was
\* inserted by a request of that user whose three checks passed; a request
\* that add_photo_to_album refused has inserted nothing.
C19_RowsLinkSameOwner ==
    /\ \A x \in DOMAIN album_photos :
          LET row == album_photos[x]
          IN  /\ row.album_id \in DOMAIN albums
              /\ row.photo_id \in DOMAIN photos
              /\ albums[row.album_id].user_id = photos[row.photo_id].user_id
              /\ \E r \in Slots :
                    /\ IsAdd(req[r]) /\ req[r].apid = x
                    /\ req[r].chk = "passed"
                    /\ req[r].user = albums[row.album_id].user_id
                    /\ req[r].album = row.album_id
                    /\ req[r].target = row.photo_id
    /\ \A r \in Slots :
          (IsAdd(req[r]) /\ req[r].chk # "passed") =>
             /\ req[r].ins = "none" /\ req[r].apid = 0
             /\ req[r].code # HTTP_204_NO_CONTENT

C19_Witness ==
    /\ \E r \in Slots : IsAdd(req[r]) /\ req[r].apid \in DOMAIN album_photos
    /\ \E r \in Slots :
          /\ IsAdd(req[r]) /\ req[r].chk = "photo"
          /\ req[r].target \in DOMAIN photos
          /\ req[r].code = HTTP_400_BAD_REQUEST

\* C20: an add running with a delete of its photo ends with a success or a
\* refusal, with a 500 only when a database call failed on its own, and no
\* AlbumPhoto row references a photo that does not exist.
C20_DeleteAddRaceClean ==
    /\ \A r \in Slots :
          LET q == req[r]
          IN  (IsAdd(q) /\ Done(q) /\ q.code = HTTP_500_INTERNAL_SERVER_ERROR) =>
                (q.sel = "fail" \/ q.ins \in {"fail", "refresh_fail"})
    /\ \A x \in DOMAIN album_photos :
          album_photos[x].photo_id \in DOMAIN photos

----------------------------------------------------------------------------
(* The thumbnail worker: C21 .. C26 *)

\* the invocation of the worker has a path that the spec says is ignored
IgnoredPath(file_path) ==
    \/ Contains(file_path, ThumbnailsSegment)
    \/ ~Contains(file_path, PhotosSegment)

\* the worker has taken an event
Invoked == wk.file_path # NoPath

\* the invocation is over
Returned == Invoked /\ wk.pc = "idle"

\* C21: for a finalize event whose path contains /thumbnails/ or lies outside
\* the photo namespace, the worker reads no blob, writes no blob and does not
\* touch the metadata document: the invocation ends at once.
C21_IgnoredEventsTouchNothing ==
    (Invoked /\ IgnoredPath(wk.file_path)) =>
        /\ wk.pc = "idle"
        /\ wk.out = "skipped"
        /\ wk.read = "none"
        /\ wk.i = 0
        /\ wk.thumbnail_urls = << >>
        /\ wk.doc = "none"

\* an event of each of the two ignored kinds was delivered
C21_Witness ==
    /\ Returned
    /\ wk.out = "skipped"
    /\ wk.by = "other"
    /\ Contains(wk.file_path, ThumbnailsSegment)
    /\ Contains(wk.file_path, PhotosSegment)

\* C22: every blob the worker writes has a path the worker ignores, so the
\* events raised by its own writes are skipped: an invocation that processes
\* an image is never one that a write of the worker started.
C22_OwnWritesAreIgnored ==
    /\ \A e \in events : e.by = "worker" => IgnoredPath(e.name)
    /\ (Invoked /\ wk.by = "worker") =>
           /\ IgnoredPath(wk.file_path)
           /\ wk.out = "skipped"
           /\ wk.read = "none"
           /\ wk.i = 0

\* the event of a thumbnail the worker wrote has been delivered and skipped
C22_Witness ==
    /\ Returned
    /\ wk.by = "worker"
    /\ wk.out = "skipped"
    /\ wk.file_path \in blobs

\* p is <dir>/photos/<name>.<ext>: "/photos/" is at i, the last "." at j, and
\* <name>.<ext> is a file name
SourceForm(p, i, j) ==
    /\ i + 2 < j
    /\ SubSeq(p, i, i + 2) = PhotosSegment
    /\ p[j] = "."
    /\ \A k \in (i + 3)..Len(p) : p[k] # "/"
    /\ \A k \in (j + 1)..Len(p) : p[k] # "."

\* <dir>/photos/thumbnails/<name>_<size>.<ext>
ExpectedThumbnail(p, i, j, size_name) ==
    SubSeq(p, 1, i - 1) \o << "/", "photos", "/", "thumbnails", "/" >>
        \o SubSeq(p, i + 3, j - 1) \o << "_" \o size_name, "." >>
        \o SubSeq(p, j + 1, Len(p))

\* C23: for a source path <dir>/photos/<name>.<ext> and each of the sizes
\* small, medium and large the thumbnail path is
\* <dir>/photos/thumbnails/<name>_<size>.<ext>, and that is where the
\* invocation stores the thumbnail and what it records as its URL.
C23_ThumbnailPathForm ==
    \A i \in 1..Len(wk.file_path), j \in 1..Len(wk.file_path) :
        SourceForm(wk.file_path, i, j) =>
            \A n \in DOMAIN THUMBNAIL_SIZES :
                LET size_name == THUMBNAIL_SIZES[n]
                    expected == ExpectedThumbnail(wk.file_path, i, j, size_name)
                IN  /\ get_thumbnail_path(wk.file_path, size_name) = expected
                    /\ n <= wk.i =>
                          /\ expected \in blobs
                          /\ wk.thumbnail_urls[size_name] = ThumbnailUrl(expected)

\* an invocation on a path of that form stored the three thumbnails
C23_Witness ==
    /\ Returned
    /\ wk.out = "ok"
    /\ wk.i = Len(THUMBNAIL_SIZES)
    /\ \E i \in 1..Len(wk.file_path), j \in 1..Len(wk.file_path) :
          /\ SourceForm(wk.file_path, i, j)
          /\ i > 1
          /\ j < Len(wk.file_path)

\* the three thumbnails of the invocation are in the object store
ThumbnailsStored ==
    /\ wk.i = Len(THUMBNAIL_SIZES)
    /\ \A n \in DOMAIN THUMBNAIL_SIZES :
          get_thumbnail_path(wk.file_path, THUMBNAIL_SIZES[n]) \in blobs

\* C24: when the metadata document does not exist, or the document store
\* fails, at the patch step, the patch is skipped and the invocation completes
\* without error: the three thumbnails are stored, no document was created
\* and no document has a thumbnails map the invocation would have written.
C24_MissingDocumentSkipsPatch ==
    (Returned /\ wk.doc \in {"missing", "failed"}) =>
        /\ wk.out = "ok"
        /\ ThumbnailsStored
        /\ DOMAIN docs = {UuidStr(id) : id \in DOMAIN photos}
        /\ \A k \in DOMAIN docs : "thumbnails" \notin DOMAIN docs[k]

\* the worker found no document under the id it took from the path
C24_Witness ==
    /\ Returned
    /\ wk.doc = "missing"
    /\ wk.photo_id # << >>
    /\ wk.photo_id \notin DOMAIN docs
    /\ ThumbnailsStored

\* C25: in one invocation a failure at one size does not abort the remaining
\* sizes, and the invocation re-raises only when the source image could not
\* be read: once the source was read, the invocation ends without raising
\* and has gone through the three sizes.
C25_SizeFailureDoesNotAbort ==
    (Returned /\ wk.read = "ok") =>
        /\ wk.out # "raised"
        /\ wk.i = Len(THUMBNAIL_SIZES)

\* the worker has just processed the finalize event of the blob of photo id
\* without error, and the metadata document of the photo was written before
WorkerRanFor(id) ==
    /\ Returned
    /\ wk.file_path = photos[id].storage_path
    /\ wk.out = "ok"
    /\ wk.doc # "failed"
    /\ UuidStr(id) \in DOMAIN docs

\* C26: once the worker has processed the finalize event of a photo's blob,
\* with the metadata document already written, the document keyed by the
\* Photo's id holds a thumbnails map with the three sizes (what
\* GET /photos/{id}/thumbnails needs to return the three signed URLs).
C26_ThumbnailsAfterWorker ==
    \A id \in DOMAIN photos :
        WorkerRanFor(id) =>
            /\ "thumbnails" \in DOMAIN docs[UuidStr(id)]
            /\ DOMAIN docs[UuidStr(id)].thumbnails = Range(THUMBNAIL_SIZES)

----------------------------------------------------------------------------
(* Reads and owner checks: C27, C28 *)

IsGet(q) == q.kind = "get"
IsList(q) == q.kind = "list"

\* C27: GET /photos/{id} and the list of the owner depend only on the
\* relational rows: whatever the metadata documents are (absent, stale,
\* without thumbnails) and whether or not the worker has run, a read whose
\* SELECT worked answers with the data of the row.
C27_ReadsDependOnRowOnly ==
    \A r \in Slots :
        LET q == req[r]
        IN  /\ (IsGet(q) /\ Done(q) /\ q.sel # "fail") =>
                   IF q.target \notin DOMAIN photos
                   THEN q.code = HTTP_404_NOT_FOUND
                   ELSE IF photos[q.target].user_id # q.user
                   THEN q.code = HTTP_403_FORBIDDEN
                   ELSE /\ q.code = HTTP_200_OK
                        /\ q.resp = photos[q.target].status
            /\ (IsList(q) /\ Done(q) /\ q.sel # "fail") =>
                   /\ q.code = HTTP_200_OK
                   /\ q.rows = {id \in DOMAIN photos : photos[id].user_id = q.user}

\* the owner read a photo that has no metadata document, and listed their
\* photos, after the worker ran
C27_Witness ==
    /\ Returned
    /\ wk.out = "ok"
    /\ \E r \in Slots :
          /\ IsGet(req[r])
          /\ req[r].code = HTTP_200_OK
          /\ UuidStr(req[r].target) \notin DOMAIN docs
    /\ \E r \in Slots :
          /\ IsList(req[r])
          /\ req[r].code = HTTP_200_OK
          /\ req[r].rows # {}

IsPatch(q) == q.kind = "patch"
IsGetAlbum(q) == q.kind = "get_album"

\* C28: a request on a photo or an album addressed by id answers 404 when
\* the id has no row and 403 when the row belongs to another user; only the
\* owner gets past the checks. (GET and PATCH of a photo that no delete
\* request names, GET of an album; requests whose SELECT worked.)
C28_NotFoundAndForbidden ==
    \A r \in Slots :
        LET q == req[r]
        IN  /\ (Done(q) /\ (IsGet(q) \/ IsPatch(q)) /\ q.sel # "fail"
                    /\ NoOtherWriter(q.target)) =>
                   IF q.target \notin DOMAIN photos
                   THEN q.code = HTTP_404_NOT_FOUND
                   ELSE IF photos[q.target].user_id # q.user
                   THEN q.code = HTTP_403_FORBIDDEN
                   ELSE /\ q.code \notin {HTTP_404_NOT_FOUND, HTTP_403_FORBIDDEN}
                        /\ IsGet(q) => q.code = HTTP_200_OK
            /\ (Done(q) /\ IsGetAlbum(q) /\ q.sel # "fail") =>
                   IF q.album \notin DOMAIN albums
                   THEN q.code = HTTP_404_NOT_FOUND
                   ELSE IF albums[q.album].user_id # q.user
                   THEN q.code = HTTP_403_FORBIDDEN
                   ELSE q.code = HTTP_200_OK

\* a PATCH of the photo of another user was refused with 403, and the album
\* of another user was refused with 403
C28_Witness ==
    /\ \E r \in Slots :
          /\ IsPatch(req[r])
          /\ req[r].code = HTTP_403_FORBIDDEN
          /\ req[r].target \in DOMAIN photos
          /\ req[r].status = PROCESSED
    /\ \E r \in Slots :
          /\ IsGetAlbum(req[r])
          /\ req[r].code = HTTP_403_FORBIDDEN
          /\ req[r].album \in DOMAIN albums

----------------------------------------------------------------------------
(* Store agreement and uniqueness: C29, C30 *)

\* C29: in every reachable state, over create-record, patch, get and delete
\* on a library of uploaded photos, a Photo row with status processed has
\* bytes in the object store at its storage_path.
C29_ProcessedRowHasBytes ==
    \A id \in DOMAIN photos :
        photos[id].status = PROCESSED => photos[id].storage_path \in blobs

IsRegister(q) == q.kind = "register"
IsUpdateUser(q) == q.kind = "update_user"

\* no two rows of the users table share a username or an email
UsersUnique ==
    \A a \in DOMAIN users, b \in DOMAIN users :
        a # b => /\ users[a].username # users[b].username
                 /\ users[a].email # users[b].email

\* the write of the request was refused because it would have made a duplicate
RefusedAsDuplicate(q) ==
    \/ q.chk \in {"email", "username"}
    \/ q.ins = "integrity"
    \/ q.upd = "integrity"

\* C30: after any interleaving of register and update-user operations no two
\* User rows share a username or an email, and an operation that would have
\* created a duplicate is answered with a client error (4xx).
C30_UniqueUsersClientError ==
    /\ UsersUnique
    /\ \A r \in Slots :
          LET q == req[r]
          IN  (Done(q) /\ (IsRegister(q) \/ IsUpdateUser(q))
                  /\ RefusedAsDuplicate(q)) =>
                 (q.code >= 400 /\ q.code < 500)

----------------------------------------------------------------------------
(* Sessions and returned records: C31, C32, C33 *)

\* the next call of the request goes to the object store, the document store
\* or the AI adapter
ExternalCallNext(q) ==
    q.pc \in {"ai", "put", "meta", "meta_upd", "del_blob", "del_doc", "thumb_meta"}

\* C31: no request holds a relational connection or an open transaction
\* while a call to the object store, the document store or the AI adapter is
\* in progress.
C31_NoTransactionAcrossExternalCall ==
    \A r \in Slots : ExternalCallNext(req[r]) => ~req[r].tx

\* C32: when an upload or AI-generation request succeeds (201), the Photo
\* record returned to the caller has status processed.
C32_ReturnedRecordProcessed ==
    \A r \in Slots :
        LET q == req[r]
        IN  ((IsUpload(q) \/ IsGenerate(q)) /\ Done(q)
                /\ q.code = HTTP_201_CREATED) => q.resp = PROCESSED

\* C33: in the upload and AI-generation flows the status of the metadata
\* document never runs ahead of the relational row: whenever the document of
\* a photo says processed, the row of that photo, if it exists, is processed.
C33_DocumentNeverAhead ==
    \A id \in DOMAIN photos :
        (UuidStr(id) \in DOMAIN docs /\ docs[UuidStr(id)].status = PROCESSED)
            => photos[id].status = PROCESSED

----------------------------------------------------------------------------
(* Races and refusals: C34, C35, C36 *)

\* C34: for an upload or AI-generation flow running concurrently with a
\* delete of the photo the flow is creating, with no store call of either
\* failing, once both have finished and the photo has no row, no blob and no
\* metadata document of the photo is left.
C34_NoOrphansAfterUploadDeleteRace ==
    \A u \in Slots, d \in Slots :
        LET a == req[u]
            b == req[d]
        IN  (/\ IsUpload(a) \/ IsGenerate(a)
             /\ Done(a) /\ a.pid # 0 /\ NoStoreFailure(a)
             /\ IsDelete(b) /\ Done(b) /\ b.target = a.pid
             /\ b.put # "fail" /\ b.meta # "fail" /\ b.del # "fail"
             /\ a.pid \notin DOMAIN photos) =>
                /\ a.storage_path \notin blobs
                /\ UuidStr(a.pid) \notin DOMAIN docs

\* the six requests on one photo
IsPhotoRequest(q) ==
    q.kind \in {"get", "url", "metadata", "thumbnails", "patch", "delete"}

\* the caller of q is not the owner of the row q names
ByAnother(q) ==
    q.target \in DOMAIN photos /\ photos[q.target].user_id # q.user

\* C35: no step of a request on a photo made by a user who is not its owner
\* changes the row, the blob or the metadata document of the photo, and when
\* such a step ends the request, the answer is 403 (or the 500 of a failed
\* SELECT); the rows a photo list returns all belong to the requester.
C35_OthersAreRefused ==
    [][\A r \in Slots :
          LET q == req'[r]
              id == q.target
              key == UuidStr(id)
          IN  /\ (req'[r] # req[r] /\ IsPhotoRequest(q) /\ ByAnother(q)) =>
                    /\ id \in DOMAIN photos'
                    /\ photos'[id] = photos[id]
                    /\ (photos[id].storage_path \in blobs')
                          <=> (photos[id].storage_path \in blobs)
                    /\ (key \in DOMAIN docs') <=> (key \in DOMAIN docs)
                    /\ key \in DOMAIN docs => docs'[key] = docs[key]
                    /\ Done(q) =>
                          \/ q.code = HTTP_403_FORBIDDEN
                          \/ q.code = HTTP_500_INTERNAL_SERVER_ERROR
                                /\ q.sel = "fail"
              /\ (req'[r] # req[r] /\ IsList(q) /\ Done(q)
                     /\ q.code = HTTP_200_OK) =>
                    \A row \in q.rows :
                        row \in DOMAIN photos /\ photos[row].user_id = q.user
      ]_vars

\* a delete and a patch by a user who does not own the photo were both refused
\* while the photo has its row, its blob and its document
C35_Witness ==
    \E r \in Slots, s \in Slots :
        /\ IsDelete(req[r]) /\ Done(req[r]) /\ ByAnother(req[r])
        /\ req[r].code = HTTP_403_FORBIDDEN
        /\ IsPatch(req[s]) /\ Done(req[s]) /\ req[s].target = req[r].target
        /\ req[s].user = req[r].user
        /\ req[s].code = HTTP_403_FORBIDDEN
        /\ photos[req[r].target].storage_path \in blobs
        /\ UuidStr(req[r].target) \in DOMAIN docs

\* a and b are finished deletes of one photo by one user, a removed the blob,
\* and no database call of either failed
DeletedTwice(a, b) ==
    /\ IsDelete(a) /\ IsDelete(b) /\ Done(a) /\ Done(b)
    /\ a.target = b.target /\ a.user = b.user
    /\ a.sel = "found" /\ a.put = "deleted"
    /\ a.meta = "ok" \/ b.meta = "ok"
    /\ a.sel # "fail" /\ b.sel # "fail" /\ a.del # "fail" /\ b.del # "fail"

\* C36: when two deletes of one photo by its owner have both finished (in any
\* interleaving, without a failing database call), each has answered 204 or
\* 404, and the row, the blob and the metadata document of the photo are gone.
C36_ConcurrentDeletesLeaveNothing ==
    \A r \in Slots, s \in Slots :
        (r # s /\ DeletedTwice(req[r], req[s])) =>
            /\ req[r].code \in {HTTP_204_NO_CONTENT, HTTP_404_NOT_FOUND}
            /\ req[s].code \in {HTTP_204_NO_CONTENT, HTTP_404_NOT_FOUND}
            /\ req[r].target \notin DOMAIN photos
            /\ req[r].storage_path \notin blobs
            /\ UuidStr(req[r].target) \notin DOMAIN docs

\* both deletes passed the lookup before either removed the row: one removed
\* the row, the other found none, and both answered 204
C36_Witness ==
    \E r \in Slots, s \in Slots :
        /\ r # s /\ DeletedTwice(req[r], req[s])
        /\ req[s].sel = "found"
        /\ req[r].del = "deleted" /\ req[s].del = "norow"
        /\ req[r].code = HTTP_204_NO_CONTENT
        /\ req[s].code = HTTP_204_NO_CONTENT

----------------------------------------------------------------------------
(* Redelivered events: C37 *)

\* an event was processed twice: both invocations went through the loop
\* and neither met a failing Firestore call
ProcessedTwice ==
    /\ wk.pc = "idle" /\ wk.redelivered > 0
    /\ wk.prev_out = "ok" /\ wk.prev_doc # "failed"
    /\ wk.out = "ok" /\ wk.doc # "failed"

\* the blob names in a map of thumbnail URIs
PathsOf(urls) == {BlobNameOfUrl(urls[n]) : n \in DOMAIN urls}

\* C37: when a finalize event was processed a second time, the second
\* invocation wrote the same three thumbnail paths as the first, the three
\* blobs are stored, and the document the first invocation patched has a
\* thumbnails map with the same three size-to-URI entries as after the first
\* invocation (a document the first did not find is not found by the second).
C37_RedeliveryIdempotent ==
    ProcessedTwice =>
        /\ DOMAIN wk.thumbnail_urls = Range(THUMBNAIL_SIZES)
        /\ Cardinality(PathsOf(wk.thumbnail_urls)) = 3
        /\ PathsOf(wk.thumbnail_urls) = PathsOf(wk.prev_urls)
        /\ PathsOf(wk.thumbnail_urls) \subseteq blobs
        /\ wk.doc = wk.prev_doc
        /\ wk.doc = "patched" =>
              /\ wk.photo_id \in DOMAIN docs
              /\ docs[wk.photo_id].thumbnails = wk.prev_urls
              /\ DOMAIN docs[wk.photo_id].thumbnails = Range(THUMBNAIL_SIZES)

\* an event whose path names the document of a photo was processed twice,
\* and both invocations patched the document
C37_Witness ==
    /\ ProcessedTwice
    /\ wk.prev_doc = "patched" /\ wk.doc = "patched"
    /\ wk.photo_id = UuidStr(LibPhotoId(1))

====
